---- MODULE Spec2Model ----
(***************************************************************************)
(* Verification model of the aframe-sora-demo teleoperation control plane: *)
(* the Manager (services/conductor.py and the components under             *)
(* server/services, server/domain, server/adapters) and the Raspberry Pi   *)
(* Bridge command pipeline (rpi/bridge).                                   *)
(*                                                                         *)
(* Numbers.  Python floats are modelled in fixed point.  A normalised      *)
(* control quantity (throttle, steer, brake, decay) is an integer count of *)
(* 1/6000, so that 1.0 is One.  Bridge speeds are in 1/1000 m/s (rad/s),   *)
(* and a Bridge velocity is the exact product of the two.  Time is counted *)
(* in ticks; the Manager tick is 1/60 s (one nominal physics period).      *)
(***************************************************************************)
EXTENDS Integers, Sequences, FiniteSets, TLC

\* ------------------------------------------------------------------------
\* Optional values (Python None / a value) are sequences of length <= 1.
None == << >>
Some(v) == << v >>
IsNone(o) == o = << >>
Val(o) == o[1]

\* The fixed-point image of 1.0 for throttle, steer, brake and decay.
One == 6 * 1000

Abs(n) == IF n < 0 THEN -n ELSE n

\* ========================================================================
\*                       BRIDGE  (src/rpi/bridge)
\* ========================================================================

VARIABLES
    max_linear_speed,      \* CommandConverter.max_linear_speed   (1/1000 m/s)
    max_angular_speed,     \* CommandConverter.max_angular_speed  (1/1000 rad/s)
    brake_threshold,       \* CommandConverter.brake_threshold    (1/6000)
    conv_args,             \* arguments of the last direct to_velocity call
    conv_result            \* its result, None before any call

VARIABLES
    command_timeout_sec,   \* CommandSubscriber._command_timeout_sec (ticks)
    last_seq,              \* CommandSubscriber._last_seq
    last_publish_wall,     \* CommandSubscriber._last_publish_wall
    bridge_stop_event,     \* CommandSubscriber._stop_event
    bridge_now,            \* time.time() on the Bridge, in ticks
    sink_last,             \* the last velocity handed to the sink
    cb_pc,                 \* position of the callback thread in process_ctrl_payload
    cb_payload,            \* the payload it is processing
    wd_pc,                 \* position of the watchdog thread in _watchdog_loop
    wd_last_publish,       \* its local last_publish
    ever_processed,        \* history: a payload has been processed to the end
    wd_zeros               \* history: watchdog zero publishes since the last
                           \* payload was processed to the end

convVars == << max_linear_speed, max_angular_speed, brake_threshold,
               conv_args, conv_result >>
bridgeVars == << command_timeout_sec, last_seq, last_publish_wall,
                 bridge_stop_event, bridge_now, sink_last,
                 cb_pc, cb_payload, wd_pc, wd_last_publish,
                 ever_processed, wd_zeros >>

\* ========================================================================
\*                       MANAGER  (src/server)
\* ========================================================================

VARIABLES
    variant,               \* which Manager is running: "conductor" is
                           \* services/conductor.py (what main.py starts),
                           \* "components" the classes of services/conductor_*.py,
                           \* state_payload.py and loops.py
    mgr_now,               \* time.perf_counter() and time.time(), in ticks
    last_ctrl,             \* the control store's snapshot (_last_ctrl)
    last_ctrl_latency_ms,  \* _last_ctrl_latency_ms
    last_ctrl_recv_wall,   \* _last_ctrl_recv_wall
    last_hb_from_ui,       \* _last_hb_from_ui / HeartbeatState._last_from_ui
    estop_triggered,       \* _estop_triggered / EstopState._triggered
    ctrl_recv_count,       \* _ctrl_recv_count / StatsTracker._ctrl_recv
    ctrl_drop_count,       \* _ctrl_drop_count / StatsTracker._ctrl_drop
    cb,                    \* the transport callback slots: position and
                           \* the snapshot being stored
    frames_left,           \* how many more frames the peers will send
    vehicle,               \* VehicleModel: vx, wz, _estop_active,
                           \* _last_ctrl_age, _last_dt (the pose is not
                           \* represented)
    phys,                  \* the physics thread: position and locals
    trig_pc,               \* the thread calling Conductor.trigger_estop
    sb,                    \* the state thread inside a payload build:
                           \* position and locals
    state_seq,             \* _state_seq
    last_idle_state_emit,  \* _last_idle_state_emit
    last_payload,          \* the last payload a build returned
    stop_event,            \* _stop_event
    reconnect_event,       \* _reconnect_event
    connected_event,       \* _connected_event
    disconnected_event,    \* _disconnected_event
    connection_alive,      \* _connection_alive
    conn,                  \* _conn: the current connection, NoConn if None
    connection_id,         \* _connection_id, NoConn if None
    dc,                    \* DataChannelManager: _conn and _ready
    sdk,                   \* the transport's view of each connection
    cbk,                   \* a transport callback between its currency
                           \* check and its effect
    loop,                  \* the connection thread: position, local conn
    stopper,               \* the thread calling stop(): position, local conn
    act                    \* the physics, state, heartbeat and stats
                           \* threads: position in their loop

\* ---- VehicleModel in floating point (domain/vehicle.py)
VARIABLES
    fv                     \* vx, wz and _estop_active, as rounded values

\* ---- the Bridge's control transports (src/rpi/transport)
VARIABLES
    tp                     \* per transport: the callback registered with
                           \* on_ctrl, _closed; and the frame handled last
                           \* with what its handler did

\* ---- the velocity sink's lifecycle (src/rpi/bridge/publisher.py)
VARIABLES
    cvp                    \* CmdVelPublisher: _node, _publisher, the nodes
                           \* created and publishers destroyed so far, the
                           \* Twists handed over, and each stop() call's
                           \* position and locals

\* ---- one snapshot ageing under VehicleModel.step
VARIABLES
    hc                     \* the snapshot given to step, the `now` of the
                           \* latest step and the (throttle, steer, brake)
                           \* that step derived from it

\* ---- what the Bridge has been given so far
VARIABLES
    estop_handled          \* process_ctrl_payload has handled a payload
                           \* with estop true (the code keeps no such flag)

\* ---- the Manager's heartbeat loop
VARIABLES
    hbl                    \* _last_hb_sent, and _send_heartbeat's position
                           \* and the connection it read

\* ---- the signaling handlers of a session
VARIABLES
    sig                    \* _connection_id, _connected_event,
                           \* _connection_alive and the signaling message
                           \* handled last

\* ---- the connection mutex around disconnect()
VARIABLES
    lk                     \* the implementation, and per thread its
                           \* position and the mutexes it holds

\* ---- the ctrl frames delivered, session by session
VARIABLES
    sess                   \* history: the seq of each ctrl frame delivered
                           \* so far, with the number of the session it
                           \* came in

\* ---- the state loop of RaspberryPiStatePublisher
VARIABLES
    fl                     \* position in _state_loop, the state queue,
                           \* the state source and the local state

\* ---- a frame going through the message handler as a whole
VARIABLES
    rx                     \* the frame delivered last and how the callback
                           \* ended: returned, or the exception that left it

\* ---- the state thread handing a built payload to the transport
VARIABLES
    pub                    \* position in send_data / _send_state, its local
                           \* conn, the seq of the payload handed over last
                           \* and what became of it

storeVars == << variant, mgr_now, last_ctrl, last_ctrl_latency_ms,
                last_ctrl_recv_wall, last_hb_from_ui, estop_triggered,
                ctrl_recv_count, ctrl_drop_count, cb, frames_left >>
vehicleVars == << vehicle, phys, trig_pc >>
buildVars == << sb, state_seq, last_idle_state_emit, last_payload >>
connVars == << stop_event, reconnect_event, connected_event,
               disconnected_event, connection_alive, conn, connection_id,
               dc, sdk, cbk, loop, stopper, act >>
floatVars == << fv >>
pubVars == << pub >>
rxVars == << rx >>
rpiVars == << tp >>
sinkVars == << cvp >>
heldVars == << hc >>
hbVars == << hbl >>
seenVars == << estop_handled >>
sigVars == << sig >>
lockVars == << lk >>
sessVars == << sess >>
flushVars == << fl >>

\* What each subsystem's actions leave alone.
notConv == << bridgeVars, storeVars, vehicleVars, buildVars, connVars,
             floatVars, pubVars, rxVars, rpiVars, sinkVars, heldVars,
             hbVars, seenVars, sigVars, lockVars, sessVars, flushVars >>
notBridge == << convVars, storeVars, vehicleVars, buildVars, connVars,
             floatVars, pubVars, rxVars, rpiVars, sinkVars, heldVars,
             hbVars, seenVars, sigVars, lockVars, sessVars, flushVars >>
notBridgeSeen == << convVars, storeVars, vehicleVars, buildVars, connVars,
                   floatVars, pubVars, rxVars, rpiVars, sinkVars, heldVars,
                   hbVars, sigVars, lockVars, sessVars, flushVars >>
notStore == << convVars, bridgeVars, vehicleVars, buildVars, connVars,
             floatVars, pubVars, rxVars, rpiVars, sinkVars, heldVars,
             hbVars, seenVars, sigVars, lockVars, sessVars, flushVars >>
notMgr == << convVars, bridgeVars, buildVars, connVars,
             floatVars, pubVars, rxVars, rpiVars, sinkVars, heldVars,
             hbVars, seenVars, sigVars, lockVars, sessVars, flushVars >>
notState == << convVars, bridgeVars, connVars,
             floatVars, pubVars, rxVars, rpiVars, sinkVars, heldVars,
             hbVars, seenVars, sigVars, lockVars, sessVars, flushVars >>
notConn == << convVars, bridgeVars, storeVars, vehicleVars, buildVars,
             floatVars, pubVars, rxVars, rpiVars, sinkVars, heldVars,
             hbVars, seenVars, sigVars, lockVars, sessVars, flushVars >>

\* ---- bounds of the Bridge model
MaxBridgeNow == 4
MaxBridgeSeq == 2

\* ---- converter.py
\* float("nan"), which json.loads reads from the token NaN: a value outside
\* the range of the numbers of the model.  Every comparison with it is
\* false and every product with it is NaN again.
NaN == -(2 ^ 20)
IsNaN(x) == x = NaN
FloatLess(a, b) == ~IsNaN(a) /\ ~IsNaN(b) /\ a < b
FloatTimes(a, b) == IF IsNaN(a) \/ IsNaN(b) THEN NaN ELSE a * b

_clamp(value, low, high) ==
    IF FloatLess(value, low) THEN low
    ELSE IF FloatLess(high, value) THEN high ELSE value

COMMAND_PRESETS ==
    [c \in {"IDLE", "UP", "DOWN", "LEFT", "RIGHT"} |->
        CASE c = "IDLE"  -> << 0, 0, (4 * One) \div 10 >>
          [] c = "UP"    -> << One, 0, 0 >>
          [] c = "DOWN"  -> << -One, 0, 0 >>
          [] c = "LEFT"  -> << 0, -One, 0 >>
          [] c = "RIGHT" -> << 0, One, 0 >>]

\* The command strings the model feeds in, and str.upper() on them.
CommandStrings == {"UP", "DOWN", "LEFT", "RIGHT", "IDLE", "up", "Left", "JUMP", ""}
Upper(s) ==
    CASE s = "up"   -> "UP"
      [] s = "Left" -> "LEFT"
      [] OTHER      -> s

\* The (throttle, steer, brake) to_velocity gates on: the preset of a
\* recognised command, else the numeric arguments with None read as 0.
EffectiveTriple(command, throttle, steer, brake) ==
    LET throttle_val == IF IsNone(throttle) THEN 0 ELSE Val(throttle)
        steer_val == IF IsNone(steer) THEN 0 ELSE Val(steer)
        brake_val == IF IsNone(brake) THEN 0 ELSE Val(brake)
    IN  IF ~IsNone(command) /\ Val(command) # ""
           /\ Upper(Val(command)) \in DOMAIN COMMAND_PRESETS
        THEN COMMAND_PRESETS[Upper(Val(command))]
        ELSE << throttle_val, steer_val, brake_val >>

to_velocity_strict_gate(command, throttle, steer, brake, estop_active) ==
    LET eff == EffectiveTriple(command, throttle, steer, brake)
    IN  IF estop_active \/ eff[3] > brake_threshold
        THEN << 0, 0 >>
        ELSE << FloatTimes(_clamp(eff[1], -One, One), max_linear_speed),
                FloatTimes(_clamp(eff[2], -One, One), max_angular_speed) >>

to_velocity(command, throttle, steer, brake, estop_active) ==
    LET eff == EffectiveTriple(command, throttle, steer, brake)
    IN  IF estop_active \/ eff[3] >= brake_threshold
        THEN << 0, 0 >>
        ELSE << FloatTimes(_clamp(eff[1], -One, One), max_linear_speed),
                FloatTimes(_clamp(eff[2], -One, One), max_angular_speed) >>

\* Inputs of a direct call of to_velocity.
ConvCommands == {None} \cup {Some(c) : c \in CommandStrings}
ConvNumbers == {None, Some(0), Some(One \div 10), Some(One \div 2),
                Some(One), Some(2 * One), Some(-One), Some(NaN)}
ConvBrakes == {None, Some(0), Some((One \div 10) - 1), Some(One \div 10),
               Some(One)}

ConvArgs ==
    [command : ConvCommands, throttle : ConvNumbers, steer : ConvNumbers,
     brake : ConvBrakes, estop_active : BOOLEAN]

DefaultConvArgs ==
    [command |-> None, throttle |-> None, steer |-> None, brake |-> None,
     estop_active |-> FALSE]

\* A converter with any of the modelled configurations, about to be called
\* with any of the modelled arguments.
ConvInit ==
    /\ max_linear_speed \in {300}
    /\ max_angular_speed \in {-300, 300}
    /\ brake_threshold \in {One \div 10, One \div 2}
    /\ conv_args \in ConvArgs
    /\ conv_result = None

\* The converter as state_recv.py configures it by default.
ConvDefaultInit ==
    /\ max_linear_speed = 300
    /\ max_angular_speed = -300
    /\ brake_threshold = One \div 10
    /\ conv_args = DefaultConvArgs
    /\ conv_result = None

\* A direct call of CommandConverter.to_velocity.
CallToVelocity ==
    /\ conv_result = None
    /\ conv_result' = Some(to_velocity(conv_args.command, conv_args.throttle,
                                       conv_args.steer, conv_args.brake,
                                       conv_args.estop_active))
    /\ UNCHANGED << max_linear_speed, max_angular_speed, brake_threshold,
                    conv_args, notConv >>

\* ---- subscriber.py
\* Payloads handed to process_ctrl_payload.  cmd is the nested object's
\* (throttle, steer, brake), None when the payload has no "cmd" object.
BridgePayloads ==
    [seq : {None} \cup {Some(n) : n \in 1..MaxBridgeSeq},
     command : {None, Some("UP"), Some("IDLE")},
     cmd : {None, Some(<< One \div 2, 0, 0 >>)},
     estop : BOOLEAN]

NoPayload == [seq |-> None, command |-> None, cmd |-> None, estop |-> FALSE]

BridgeInit ==
    /\ command_timeout_sec \in {0, 2}
    /\ last_seq = None
    /\ last_publish_wall = 0
    /\ bridge_stop_event = FALSE
    /\ bridge_now = 1
    /\ sink_last = << 0, 0 >>
    /\ cb_pc = "idle"
    /\ cb_payload = NoPayload
    /\ wd_pc = "wait"
    /\ wd_last_publish = 0
    /\ ever_processed = FALSE
    /\ wd_zeros = 0

\* CmdVelPublisher.publish on a started sink: the Twist is handed over under
\* the publisher's lock.
SinkPublish(linear, angular) ==
    sink_last' = << linear, angular >>

\* process_ctrl_payload, lines 41-51: read the payload, record the seq.
ProcessBegin ==
    /\ cb_pc = "idle"
    /\ \E p \in BridgePayloads :
        /\ cb_payload' = p
        /\ last_seq' = IF ~IsNone(p.seq) THEN p.seq ELSE last_seq
    /\ cb_pc' = "publish"
    /\ UNCHANGED << command_timeout_sec, last_publish_wall, bridge_stop_event,
                    bridge_now, sink_last, wd_pc, wd_last_publish,
                    ever_processed, wd_zeros, notBridge >>

\* process_ctrl_payload, lines 53-73: convert and publish.
ProcessPublish ==
    /\ cb_pc = "publish"
    /\ LET cmd == cb_payload.cmd
           throttle == IF IsNone(cmd) THEN 0 ELSE Val(cmd)[1]
           steer == IF IsNone(cmd) THEN 0 ELSE Val(cmd)[2]
           brake == IF IsNone(cmd) THEN 0 ELSE Val(cmd)[3]
           v == to_velocity(cb_payload.command, Some(throttle), Some(steer),
                            Some(brake), cb_payload.estop)
       IN  SinkPublish(v[1], v[2])
    /\ cb_pc' = "stamp"
    /\ cb_payload' = NoPayload
    /\ estop_handled' = (estop_handled \/ cb_payload.estop)
    /\ UNCHANGED << command_timeout_sec, last_seq, last_publish_wall,
                    bridge_stop_event, bridge_now, wd_pc,
                    wd_last_publish, ever_processed, wd_zeros,
                    notBridgeSeen >>

\* process_ctrl_payload, lines 75-76: stamp the watchdog.
ProcessStamp ==
    /\ cb_pc = "stamp"
    /\ last_publish_wall' = bridge_now
    /\ cb_pc' = "idle"
    /\ ever_processed' = TRUE
    /\ wd_zeros' = 0
    /\ UNCHANGED << command_timeout_sec, last_seq, bridge_stop_event,
                    bridge_now, sink_last, cb_payload, wd_pc, wd_last_publish,
                    notBridge >>

\* _watchdog_loop, lines 83-88: one wait of the loop ends; the loop leaves on
\* stop, skips the tick when the timeout is disabled, else reads the stamp.
WatchdogWake ==
    /\ wd_pc = "wait"
    /\ IF bridge_stop_event
       THEN wd_pc' = "done" /\ UNCHANGED wd_last_publish
       ELSE IF command_timeout_sec <= 0
       THEN UNCHANGED << wd_pc, wd_last_publish >>
       ELSE wd_pc' = "check" /\ wd_last_publish' = last_publish_wall
    /\ UNCHANGED << command_timeout_sec, last_seq, last_publish_wall,
                    bridge_stop_event, bridge_now, sink_last,
                    cb_pc, cb_payload, ever_processed, wd_zeros, notBridge >>

\* _watchdog_loop, lines 89-92: disarmed or not yet expired -> next tick.
WatchdogCheck ==
    /\ wd_pc = "check"
    /\ wd_pc' = IF wd_last_publish <= 0 THEN "wait"
                ELSE IF bridge_now - wd_last_publish >= command_timeout_sec
                THEN "zero" ELSE "wait"
    /\ UNCHANGED << command_timeout_sec, last_seq, last_publish_wall,
                    bridge_stop_event, bridge_now, sink_last,
                    cb_pc, cb_payload, wd_last_publish, ever_processed, wd_zeros, notBridge >>

\* _watchdog_loop, line 97: publish_zero().
WatchdogZero ==
    /\ wd_pc = "zero"
    /\ SinkPublish(0, 0)
    /\ wd_zeros' = wd_zeros + 1
    /\ wd_pc' = "reset"
    /\ UNCHANGED << command_timeout_sec, last_seq, last_publish_wall,
                    bridge_stop_event, bridge_now, cb_pc, cb_payload,
                    wd_last_publish, ever_processed, notBridge >>

\* _watchdog_loop, lines 98-99: disarm.
WatchdogReset ==
    /\ wd_pc = "reset"
    /\ last_publish_wall' = 0
    /\ wd_pc' = "wait"
    /\ UNCHANGED << command_timeout_sec, last_seq, bridge_stop_event,
                    bridge_now, sink_last, cb_pc, cb_payload,
                    wd_last_publish, ever_processed, wd_zeros, notBridge >>

\* CommandSubscriber.close(): request the watchdog to stop.
SubscriberClose ==
    /\ ~bridge_stop_event
    /\ bridge_stop_event' = TRUE
    /\ UNCHANGED << command_timeout_sec, last_seq, last_publish_wall,
                    bridge_now, sink_last, cb_pc, cb_payload,
                    wd_pc, wd_last_publish, ever_processed, wd_zeros, notBridge >>

\* Wall time passes on the Bridge.
BridgeTick ==
    /\ bridge_now < MaxBridgeNow
    /\ bridge_now' = bridge_now + 1
    /\ UNCHANGED << command_timeout_sec, last_seq, last_publish_wall,
                    bridge_stop_event, sink_last, cb_pc, cb_payload,
                    wd_pc, wd_last_publish, ever_processed, wd_zeros, notBridge >>

notFloat == << convVars, bridgeVars, storeVars, vehicleVars, buildVars,
              connVars, pubVars, rxVars, rpiVars, sinkVars, heldVars,
              hbVars, seenVars, sigVars, lockVars, sessVars, flushVars >>
notConnPub == << convVars, bridgeVars, storeVars, vehicleVars, buildVars,
                floatVars, rxVars, rpiVars, sinkVars, heldVars,
                hbVars, seenVars, sigVars, lockVars, sessVars, flushVars >>
notRx == << convVars, bridgeVars, buildVars, connVars, floatVars, pubVars,
           rpiVars, sinkVars, heldVars, hbVars, seenVars, sigVars, lockVars,
           sessVars, flushVars >>
notPub == << convVars, bridgeVars, storeVars, vehicleVars, buildVars,
            connVars, floatVars, rxVars, rpiVars, sinkVars, heldVars,
            hbVars, seenVars, sigVars, lockVars, sessVars, flushVars >>
notSig == << convVars, bridgeVars, storeVars, vehicleVars, buildVars,
            connVars, floatVars, pubVars, rxVars, rpiVars, sinkVars, heldVars,
            hbVars, seenVars, lockVars, sessVars, flushVars >>
notLock == << convVars, bridgeVars, storeVars, vehicleVars, buildVars,
             connVars, floatVars, pubVars, rxVars, rpiVars, sinkVars,
             heldVars, hbVars, seenVars, sigVars, sessVars, flushVars >>
notSess == << convVars, bridgeVars, storeVars, vehicleVars, buildVars,
             connVars, floatVars, pubVars, rxVars, rpiVars, sinkVars,
             heldVars, hbVars, seenVars, sigVars, lockVars, flushVars >>
notFlush == << convVars, bridgeVars, storeVars, vehicleVars, buildVars,
              connVars, floatVars, pubVars, rxVars, rpiVars, sinkVars,
              heldVars, hbVars, seenVars, sigVars, lockVars, sessVars >>
vars == << convVars, bridgeVars, storeVars, vehicleVars, buildVars,
          connVars, floatVars, pubVars, rxVars, rpiVars, sinkVars, heldVars,
          hbVars, seenVars, sigVars, lockVars, sessVars, flushVars >>
notRpi == << convVars, bridgeVars, storeVars, vehicleVars, buildVars,
            connVars, floatVars, pubVars, rxVars, sinkVars, heldVars,
            hbVars, seenVars, sigVars, lockVars, sessVars, flushVars >>
notSink == << convVars, bridgeVars, storeVars, vehicleVars, buildVars,
             connVars, floatVars, pubVars, rxVars, rpiVars, heldVars,
             hbVars, seenVars, sigVars, lockVars, sessVars, flushVars >>
notHeld == << convVars, bridgeVars, storeVars, vehicleVars, buildVars,
             connVars, floatVars, pubVars, rxVars, rpiVars, sinkVars,
             hbVars, seenVars, sigVars, lockVars, sessVars, flushVars >>
notHb == << convVars, bridgeVars, storeVars, vehicleVars, buildVars,
           connVars, floatVars, pubVars, rxVars, rpiVars, sinkVars,
           heldVars, seenVars, sigVars, lockVars, sessVars, flushVars >>

\* ========================================================================
\*                 MANAGER: inbound frames and the control store
\* ========================================================================

\* ---- bounds of the Manager model
MaxNow == 2
MaxSeq == 3
MaxFrames == 3
MaxMgrFrames == MaxFrames - 1
MaxStateFrames == MaxFrames - 2

\* ---- domain/constants.py is not among the sources; the same names and
\* values are in server/manager.py.  Durations are in ticks of
\* 1/PHYSICS_RATE_HZ s.
PHYSICS_RATE_HZ == 60
TicksPerSec == PHYSICS_RATE_HZ
CTRL_HOLD_SEC == TicksPerSec \div 5
CTRL_DAMP_SEC == TicksPerSec
IDLE_STATE_INTERVAL_SEC == 5 * TicksPerSec
HEARTBEAT_IDLE_SEC == 5 * TicksPerSec

\* time.time(): the wall clock, which reads far from 0 when the Manager
\* starts, advancing with the performance counter.
WallOffset == 2 * IDLE_STATE_INTERVAL_SEC
Wall == mgr_now + WallOffset

\* ---- domain/control.py
clamp(value, low, high) ==
    IF value < low THEN low ELSE IF value > high THEN high ELSE value

SIMPLE_COMMAND_PRESETS ==
    [c \in {"IDLE", "UP", "DOWN", "LEFT", "RIGHT"} |->
        CASE c = "IDLE"  -> [throttle |-> 0, steer |-> 0,
                             brake |-> (4 * One) \div 10]
          [] c = "UP"    -> [throttle |-> (9 * One) \div 10, steer |-> 0,
                             brake |-> 0]
          [] c = "DOWN"  -> [throttle |-> -(One \div 2), steer |-> 0,
                             brake |-> 0]
          [] c = "LEFT"  -> [throttle |-> (6 * One) \div 10,
                             steer |-> -((7 * One) \div 10), brake |-> 0]
          [] c = "RIGHT" -> [throttle |-> (6 * One) \div 10,
                             steer |-> (7 * One) \div 10, brake |-> 0]]

\* ---- JSON values of a frame's fields: absent/null, a string, an integer.
Nul == [k |-> "z", s |-> "", n |-> 0]
Str(x) == [k |-> "s", s |-> x, n |-> 0]
Num(x) == [k |-> "n", s |-> "", n |-> x]
IsStr(v) == v.k = "s"
IsInt(v) == v.k = "n"
\* Python truthiness, and `a or b`.
Truthy(v) == (v.k = "s" /\ v.s # "") \/ (v.k = "n" /\ v.n # 0)
Or(a, b) == IF Truthy(a) THEN a ELSE b
\* str.lower() on the type strings the model feeds in.
Lower(x) ==
    CASE x = "CTRL"  -> "ctrl"
      [] x = "Estop" -> "estop"
      [] x = "HB"    -> "hb"
      [] OTHER       -> x

ctrl_label == "#ctrl"
state_label == "#state"

\* The frames the model delivers (all valid UTF-8 JSON objects).
\* cmd is the nested object's (throttle, steer, brake) or None.
BaseFrame ==
    [t |-> Nul, type |-> Str("ctrl"), label |-> ctrl_label, seq |-> Num(1),
     command |-> Str("UP"), cmd |-> None, sent_at_ms |-> Nul, ts |-> Nul]
CtrlFrames ==
    { [BaseFrame EXCEPT !.seq = Num(n), !.command = c[1], !.cmd = c[2],
                        !.ts = x] :
        n \in 1..MaxSeq, x \in {Nul, Num(1)},
        c \in { << Str("Left"), None >>,
                << Nul, Some(<< 2 * One, -(One \div 2), 0 >>) >> } }
    \cup { [BaseFrame EXCEPT !.type = Str("CTRL")],
           [BaseFrame EXCEPT !.label = state_label],
           [BaseFrame EXCEPT !.seq = Nul],
           [BaseFrame EXCEPT !.seq = Str("1")],
           [BaseFrame EXCEPT !.command = Str("JUMP")],
           [BaseFrame EXCEPT !.command = Nul] }
OtherFrames ==
    { [BaseFrame EXCEPT !.type = Str("hb"), !.seq = Nul, !.command = Nul],
      [BaseFrame EXCEPT !.t = Str("hb"), !.seq = Nul, !.command = Nul],
      [BaseFrame EXCEPT !.type = Str("Estop"), !.seq = Nul, !.command = Nul],
      [BaseFrame EXCEPT !.type = Str("estop"), !.label = state_label],
      [BaseFrame EXCEPT !.type = Str("state")],
      [BaseFrame EXCEPT !.type = Num(7)] }
Frames == CtrlFrames \cup OtherFrames
\* The frames without a client timestamp and below the highest seq.
MgrFrames == {f \in Frames : f.ts = Nul /\ (IsInt(f.seq) => f.seq.n < MaxSeq)}

\* _on_message / handle: the normalised message type, None if not a string.
MsgTypeNorm(f) ==
    LET msg_type == Or(f.t, f.type)
    IN  IF IsStr(msg_type) THEN Some(Lower(msg_type.s)) ELSE None

\* A dispatch that does not look at the label.
Dispatch_anylabel(f) ==
    LET norm == MsgTypeNorm(f)
    IN  IF norm \in {Some("cmd"), Some("ctrl")} THEN "ctrl"
        ELSE IF norm = Some("hb") THEN "hb"
        ELSE IF norm = Some("estop") THEN "estop"
        ELSE "ignore"

\* Which branch of the dispatch a frame takes.
Dispatch(f) ==
    LET norm == MsgTypeNorm(f)
    IN  IF norm \in {Some("cmd"), Some("ctrl")} /\ f.label = ctrl_label
        THEN "ctrl"
        ELSE IF norm = Some("hb") THEN "hb"
        ELSE IF norm = Some("estop") THEN "estop"
        ELSE "ignore"

\* The (throttle, steer, brake) a ctrl frame resolves to: the preset of a
\* known command string, else the clamped cmd object (absent fields 0).
\* Only used for frames whose command is not an unknown string.
ResolveCommand(f) ==
    IF IsStr(f.command)
    THEN LET preset == SIMPLE_COMMAND_PRESETS[Upper(f.command.s)]
         IN  << clamp(preset.throttle, -One, One),
                clamp(preset.steer, -One, One),
                clamp(preset.brake, 0, One) >>
    ELSE IF IsNone(f.cmd) THEN << 0, 0, 0 >>
    ELSE << clamp(Val(f.cmd)[1], -One, One),
            clamp(Val(f.cmd)[2], -One, One),
            clamp(Val(f.cmd)[3], 0, One) >>

KnownCommand(f) == Upper(f.command.s) \in DOMAIN SIMPLE_COMMAND_PRESETS

\* The first of the given timestamp fields that holds a number.
FirstNumber(fields) ==
    IF \E i \in 1..Len(fields) : IsInt(fields[i])
    THEN LET i == CHOOSE j \in 1..Len(fields) :
                    IsInt(fields[j]) /\ \A h \in 1..(j - 1) : ~IsInt(fields[h])
         IN  Some(fields[i].n)
    ELSE None

\* ControlSnapshot (domain/control.py).
Snapshot(seq, triple, received_at, client_ts) ==
    [seq |-> seq, throttle |-> triple[1], steer |-> triple[2],
     brake |-> triple[3], mode |-> "arcade", received_at |-> received_at,
     client_timestamp_ms |-> client_ts]

NoSnapshot == Snapshot(0, << 0, 0, 0 >>, 0, None)

\* ---- services/conductor_state.py
\* ControlState.update_if_new's test: the snapshot is kept out when the
\* store holds one with an equal or greater seq.
IsStale_lt(seq) == ~IsNone(last_ctrl) /\ seq < Val(last_ctrl).seq

\* A test that keeps out exact replays only.
IsStale_eq(seq) == ~IsNone(last_ctrl) /\ seq = Val(last_ctrl).seq
IsStale(seq) == ~IsNone(last_ctrl) /\ seq <= Val(last_ctrl).seq

CbThreads == {1, 2}
CbIdle == [pc |-> "idle", snap |-> NoSnapshot]
\* Callback slot k can start: it is idle, and slot k runs only beside a
\* callback in progress on every lower slot (the slots are interchangeable).
CanStart(k) ==
    /\ cb[k].pc = "idle"
    /\ \A j \in CbThreads : j < k => cb[j].pc # "idle"

StoreInit ==
    /\ variant \in {"conductor", "components"}
    /\ mgr_now = 1
    /\ last_ctrl = None
    /\ last_ctrl_latency_ms = None
    /\ last_ctrl_recv_wall = None
    /\ last_hb_from_ui = None
    /\ estop_triggered = FALSE
    /\ ctrl_recv_count = 0
    /\ ctrl_drop_count = 0
    /\ cb = [k \in CbThreads |-> CbIdle]
    /\ frames_left \in {MaxFrames, MaxMgrFrames, MaxStateFrames}

\* The callback on slot k returns, or ends in the named exception.
Finish(k, outcome) == cb' = [cb EXCEPT ![k] = CbIdle]

\* Conductor._on_message with a ctrl frame, then Conductor._handle_ctrl up
\* to the lock (conductor.py 218-232, 260-292): validate and build the
\* snapshot.  A frame without an integer seq, or with an unknown command
\* string, is dropped here.
ConductorParseCtrl(k, frames) ==
    /\ variant = "conductor"
    /\ CanStart(k)
    /\ frames_left > 0
    /\ frames_left' = frames_left - 1
    /\ \E f \in frames :
        /\ Dispatch(f) = "ctrl"
        /\ IF ~IsInt(f.seq)
           THEN Finish(k, "no_seq")
           ELSE IF IsStr(f.command) /\ ~KnownCommand(f)
           THEN Finish(k, "unknown_command")
           ELSE /\ cb' = [cb EXCEPT ![k] =
                        [pc |-> "store",
                         snap |-> Snapshot(f.seq.n, ResolveCommand(f), mgr_now,
                                           FirstNumber(<< f.ts, f.t >>))]]
    /\ UNCHANGED << variant, mgr_now, last_ctrl, last_ctrl_latency_ms,
                    last_ctrl_recv_wall, last_hb_from_ui, estop_triggered,
                    ctrl_recv_count, ctrl_drop_count >>
    /\ UNCHANGED notStore

\* Conductor._handle_ctrl under _ctrl_lock (conductor.py 294-311): drop a
\* stale seq and count it, else replace the snapshot, count it, stamp the
\* receive time and, when the frame carried a timestamp, the latency.
ConductorStoreCtrl(k) ==
    /\ variant = "conductor"
    /\ cb[k].pc = "store"
    /\ LET snap == cb[k].snap
       IN  IF IsStale(snap.seq)
           THEN /\ ctrl_drop_count' = ctrl_drop_count + 1
                /\ Finish(k, "dropped")
                /\ UNCHANGED << last_ctrl, last_ctrl_latency_ms,
                                last_ctrl_recv_wall, ctrl_recv_count >>
           ELSE /\ last_ctrl' = Some(snap)
                /\ ctrl_recv_count' = ctrl_recv_count + 1
                /\ last_ctrl_recv_wall' = Some(Wall)
                /\ last_ctrl_latency_ms' =
                       IF IsNone(snap.client_timestamp_ms)
                       THEN last_ctrl_latency_ms
                       ELSE Some(Wall - Val(snap.client_timestamp_ms))
                /\ Finish(k, "accepted")
                /\ UNCHANGED ctrl_drop_count
    /\ UNCHANGED << variant, mgr_now, last_hb_from_ui, estop_triggered,
                    frames_left >>
    /\ UNCHANGED notStore

\* DataChannelMessageHandler.handle with a ctrl frame, then _handle_ctrl
\* (conductor_handlers.py 45-56, 65-117).  A frame without an integer seq
\* returns at line 71.  Every other frame ends in an exception before the
\* store is reached: an unknown command string makes preset None, so
\* preset.get raises AttributeError (line 81); otherwise ControlSnapshot
\* is called with manager_recv_at_ms (line 116), a field the dataclass of
\* domain/control.py does not have, which raises TypeError.
HandlerHandleCtrl(k, frames) ==
    /\ variant = "components"
    /\ CanStart(k)
    /\ frames_left > 0
    /\ frames_left' = frames_left - 1
    /\ \E f \in frames :
        /\ Dispatch(f) = "ctrl"
        /\ IF ~IsInt(f.seq) THEN Finish(k, "no_seq")
           ELSE IF IsStr(f.command) /\ ~KnownCommand(f)
           THEN Finish(k, "raised_AttributeError")
           ELSE Finish(k, "raised_TypeError")
    /\ UNCHANGED << variant, mgr_now, last_ctrl, last_ctrl_latency_ms,
                    last_ctrl_recv_wall, last_hb_from_ui, estop_triggered,
                    ctrl_recv_count, ctrl_drop_count >>
    /\ UNCHANGED notStore

\* The snapshots a client of ControlState hands to update_if_new, with the
\* latency it computed.
StoreCalls ==
    { [snap |-> Snapshot(seq, << One \div 2, 0, 0 >>, mgr_now, ts),
       latency_ms |-> IF IsNone(ts) THEN None ELSE Some(Wall - Val(ts))] :
        seq \in 1..MaxSeq, ts \in {None, Some(1)} }

\* ControlState.update_if_new(snapshot, latency_ms, recv_wall)
\* (conductor_state.py 18-31), atomic under the store's lock; the caller
\* counts the result as the handler does (conductor_handlers.py 119-128).
update_if_new(k, c) ==
    IF IsStale(c.snap.seq)
    THEN /\ ctrl_drop_count' = ctrl_drop_count + 1
         /\ Finish(k, "dropped")
         /\ UNCHANGED << last_ctrl, last_ctrl_latency_ms,
                         last_ctrl_recv_wall, ctrl_recv_count >>
    ELSE /\ last_ctrl' = Some(c.snap)
         /\ last_ctrl_latency_ms' = c.latency_ms
         /\ last_ctrl_recv_wall' = Some(Wall)
         /\ ctrl_recv_count' = ctrl_recv_count + 1
         /\ Finish(k, "accepted")
         /\ UNCHANGED ctrl_drop_count

\* A client of ControlState calls update_if_new on callback slot k.
UpdateIfNew(k) ==
    /\ variant = "components"
    /\ CanStart(k)
    /\ frames_left > 0
    /\ frames_left' = frames_left - 1
    /\ \E c \in StoreCalls : update_if_new(k, c)
    /\ UNCHANGED << variant, mgr_now, last_hb_from_ui, estop_triggered >>
    /\ UNCHANGED notStore

\* A frame that the dispatch ignores (conductor.py 237-238,
\* conductor_handlers.py 61-62).
IgnoreFrame(k, frames) ==
    /\ CanStart(k)
    /\ frames_left > 0
    /\ frames_left' = frames_left - 1
    /\ \E f \in frames : Dispatch(f) = "ignore"
    /\ Finish(k, "ignored")
    /\ UNCHANGED << variant, mgr_now, last_ctrl, last_ctrl_latency_ms,
                    last_ctrl_recv_wall, last_hb_from_ui, estop_triggered,
                    ctrl_recv_count, ctrl_drop_count >>
    /\ UNCHANGED notStore

\* _handle_heartbeat (conductor.py 315-316, conductor_handlers.py 132-133).
HandleHeartbeat(k, frames) ==
    /\ CanStart(k)
    /\ frames_left > 0
    /\ frames_left' = frames_left - 1
    /\ \E f \in frames : Dispatch(f) = "hb"
    /\ last_hb_from_ui' = Some(Wall)
    /\ Finish(k, "hb")
    /\ UNCHANGED << variant, mgr_now, last_ctrl, last_ctrl_latency_ms,
                    last_ctrl_recv_wall, estop_triggered,
                    ctrl_recv_count, ctrl_drop_count >>
    /\ UNCHANGED notStore

\* Time passes on the Manager.
MgrTick ==
    /\ mgr_now < MaxNow
    /\ mgr_now' = mgr_now + 1
    /\ UNCHANGED << variant, last_ctrl, last_ctrl_latency_ms,
                    last_ctrl_recv_wall, last_hb_from_ui, estop_triggered,
                    ctrl_recv_count, ctrl_drop_count, cb, frames_left >>
    /\ UNCHANGED notStore

\* ========================================================================
\*                 MANAGER: vehicle model, physics loop, E-Stop
\* ========================================================================
\* Units.  Time is counted in physics ticks (1/PHYSICS_RATE_HZ s).  Throttle,
\* steer, brake and decay are in 1/One; accelerations in 1/One m/s^2; vx in
\* 1/(One * TicksPerSec) m/s, so that vx += accel * dt is exact; wz in
\* 1/One rad/s.

\* ---- VehicleModel's class constants (domain/vehicle.py 13-20)
MAX_SPEED == 20
MAX_ACCEL == 9
BRAKE_DECEL == 14
COAST_DECEL == 2
IDLE_DECEL == (3 * One) \div 2
YAW_RATE_MAX_x2 == 5
YAW_SLEW == 6
ANGULAR_DAMP == 4

VxScale == One * TicksPerSec
\* 1e-3 in each scale.
ThrottleEps == One \div 1000
VxEps == VxScale \div 1000
WzEps == One \div 1000

Sign(x) == IF x < 0 THEN -1 ELSE 1
Max(a, b) == IF a >= b THEN a ELSE b
\* Division rounding toward zero.
TruncDiv(a, b) == IF a >= 0 THEN a \div b ELSE -((-a) \div b)

\* VehicleModel.__init__ (domain/vehicle.py 22-31).
VehicleInit ==
    [vx |-> 0, wz |-> 0, _estop_active |-> FALSE, _last_ctrl_age |-> None,
     _last_dt |-> 1]

\* ControlSnapshot.age(now).
age(ctrl, now) == now - ctrl.received_at

\* step's derivation without the else branch of lines 44-48: the snapshot's
\* values are used whatever its age.
HeldCommand_nodecay(ctrl, now) ==
    IF IsNone(ctrl) THEN << 0, 0, 0 >>
    ELSE << Val(ctrl).throttle, Val(ctrl).steer, Val(ctrl).brake >>

\* The (throttle, steer, brake) that step derives from the snapshot before
\* the E-Stop override (vehicle.py 36-48).
HeldCommand(ctrl, now) ==
    IF IsNone(ctrl) THEN << 0, 0, 0 >>
    ELSE LET c == Val(ctrl)
             a == age(c, now)
             decay == clamp(((a - CTRL_HOLD_SEC) * One) \div CTRL_DAMP_SEC,
                            0, One)
         IN  IF a <= CTRL_HOLD_SEC
             THEN << c.throttle, c.steer, c.brake >>
             ELSE << TruncDiv(c.throttle * (One - decay), One),
                     TruncDiv(c.steer * (One - decay), One),
                     Max(c.brake, decay) >>

\* The steer that drives the yaw rate: step leaves it as the snapshot gives
\* it, E-Stop or not (vehicle.py 51-53 override throttle and brake only).
StepSteer(v, held) == held[2]

\* VehicleModel.step(ctrl, dt, now) (vehicle.py 34-90): the vehicle after
\* the step.
step(v, ctrl, dt, now) ==
    LET hasCtrl == ~IsNone(ctrl)
        held == HeldCommand(ctrl, now)
        throttle == IF v._estop_active THEN 0 ELSE held[1]
        steer == StepSteer(v, held)
        brake == IF v._estop_active THEN One ELSE held[3]
        moving == Abs(v.vx) > VxEps
        accel0 == throttle * MAX_ACCEL
        accel1 == IF Abs(throttle) <= ThrottleEps
                  THEN IF moving
                       THEN accel0 - Sign(v.vx) * COAST_DECEL * One
                       ELSE 0
                  ELSE accel0
        accel2 == IF brake > 0 /\ moving
                  THEN accel1 - Sign(v.vx) * BRAKE_DECEL * brake
                  ELSE accel1
        idle == ~hasCtrl /\ ~v._estop_active
        accel3 == IF idle /\ moving
                  THEN accel2 - Sign(v.vx) * IDLE_DECEL
                  ELSE accel2
        vx0 == IF idle /\ ~moving THEN 0 ELSE v.vx
        vx1 == vx0 + accel3 * dt
        vx2 == IF Abs(vx1) < VxEps THEN 0 ELSE vx1
        vx3 == clamp(vx2, -(MAX_SPEED * VxScale), MAX_SPEED * VxScale)
        target_wz == TruncDiv(steer * YAW_RATE_MAX_x2, 2)
        slew == (YAW_SLEW * One * dt) \div TicksPerSec
        damping == clamp((ANGULAR_DAMP * One * dt) \div TicksPerSec, 0, One)
        wz1 == IF hasCtrl
               THEN v.wz + clamp(target_wz - v.wz, -slew, slew)
               ELSE TruncDiv(v.wz * (One - damping), One)
        wz2 == IF Abs(wz1) < WzEps THEN 0 ELSE wz1
    IN  [vx |-> vx3, wz |-> wz2, _estop_active |-> v._estop_active,
         _last_ctrl_age |-> IF hasCtrl THEN Some(age(Val(ctrl), now))
                            ELSE None,
         _last_dt |-> dt]

\* An E-Stop that stops the vehicle without raising its flag.
estop_momentary(v) == [v EXCEPT !.vx = 0, !.wz = 0]

\* VehicleModel.estop() (vehicle.py 103-106).
estop(v) == [v EXCEPT !._estop_active = TRUE, !.vx = 0, !.wz = 0]

PhysInit ==
    [pc |-> "read", last |-> 1, now |-> 1, dt |-> 1, ctrl |-> None,
     first |-> TRUE]

\* ---- VehicleModel.step as the interpreter computes it: every sum and
\* product is rounded to the nearest value of a binary floating-point format,
\* ties to even.  Python floats carry 53 significant bits; the model keeps
\* the rounding rule and carries MantissaBits, with values counted in units
\* of 1/FOne (below FOne / 2 the spacing is one unit, as in the subnormal
\* range).
MantissaBits == 5
FOne == 2 ^ MantissaBits

RECURSIVE Pow2Floor(_, _)
\* The largest power of two p * 2^i that is at most a times den (a >= den).
Pow2Floor(a, den) == IF 2 * den > a THEN 1 ELSE 2 * Pow2Floor(a, 2 * den)

\* The spacing of the format's values around num / den.
Ulp(num, den) ==
    LET b == IF Abs(num) < den THEN 1 ELSE Pow2Floor(Abs(num), den)
        half == 2 ^ (MantissaBits - 1)
    IN  IF b <= half THEN 1 ELSE b \div half

\* num / den rounded to the nearest value of the format, ties to even.
FlQ(num, den) ==
    LET a == Abs(num)
        u == Ulp(num, den)
        k == a \div (den * u)
        rem2 == 2 * (a - k * den * u)
        up == rem2 > den * u \/ (rem2 = den * u /\ k % 2 = 1)
    IN  Sign(num) * (IF up THEN k + 1 ELSE k) * u
Fl(n) == FlQ(n, 1)

\* abs(x) < 1e-3 and abs(x) > 1e-3 for x in units of 1/FOne.
FBelowEps(x) == Abs(x) * 1000 < FOne
FAboveEps(x) == Abs(x) * 1000 > FOne

FloatInit == fv = [vx |-> 0, wz |-> 0, _estop_active |-> FALSE]

\* The (throttle, steer, brake) that lines 36-48 hand to the rest of step,
\* and dt in seconds, all values of the format.
FloatArgs ==
    [hasCtrl : BOOLEAN,
     throttle : {0, FOne},
     steer : {-FOne, (FOne * 11) \div 16, FOne},
     brake : {0, FOne},
     dt : {FOne \div 16, (FOne * 3) \div 4}]

\* vehicle.py 51-72: vx after the step.
float_vx(v, a) ==
    LET throttle == IF v._estop_active THEN 0 ELSE a.throttle
        brake == IF v._estop_active THEN FOne ELSE a.brake
        moving == FAboveEps(v.vx)
        accel0 == Fl(throttle * MAX_ACCEL)
        accel1 == IF Abs(throttle) * 1000 <= FOne
                  THEN IF moving
                       THEN Fl(accel0 - Sign(v.vx) * COAST_DECEL * FOne)
                       ELSE 0
                  ELSE accel0
        accel2 == IF brake > 0 /\ moving
                  THEN Fl(accel1 - Sign(v.vx) * FlQ(BRAKE_DECEL * brake, 1))
                  ELSE accel1
        idle == ~a.hasCtrl /\ ~v._estop_active
        accel3 == IF idle /\ moving
                  THEN Fl(accel2 - Sign(v.vx) * ((3 * FOne) \div 2))
                  ELSE accel2
        vx0 == IF idle /\ ~moving THEN 0 ELSE v.vx
        vx1 == Fl(vx0 + FlQ(accel3 * a.dt, FOne))
        vx2 == IF FBelowEps(vx1) THEN 0 ELSE vx1
    IN  clamp(vx2, -(MAX_SPEED * FOne), MAX_SPEED * FOne)

\* vehicle.py 74-83: wz after the step.
float_wz(v, a) ==
    LET target_wz == FlQ(a.steer * YAW_RATE_MAX_x2, 2)
        slew == Fl(YAW_SLEW * a.dt)
        damping == clamp(Fl(ANGULAR_DAMP * a.dt), 0, FOne)
        wz1 == IF a.hasCtrl
               THEN Fl(v.wz + clamp(Fl(target_wz - v.wz), -slew, slew))
               ELSE FlQ(v.wz * Fl(FOne - damping), FOne)
    IN  IF FBelowEps(wz1) THEN 0 ELSE wz1

\* One call of VehicleModel.step.
FloatStep ==
    /\ \E a \in FloatArgs :
        fv' = [fv EXCEPT !.vx = float_vx(fv, a), !.wz = float_wz(fv, a)]
    /\ UNCHANGED notFloat

\* VehicleModel.estop() (vehicle.py 103-106).
FloatEstop ==
    /\ ~fv._estop_active
    /\ fv' = [fv EXCEPT !._estop_active = TRUE, !.vx = 0, !.wz = 0]
    /\ UNCHANGED notFloat

VehicleVarsInit ==
    /\ vehicle = VehicleInit
    /\ phys = PhysInit
    /\ trig_pc = "idle"
    /\ FloatInit

\* PhysicsLoop.run / Conductor._physics_loop, the top of an iteration
\* (loops.py 45-50, conductor.py 329-337): measure dt (the target dt when no
\* time has passed), then read the control store under its lock.  After an
\* iteration the loop sleeps, so only the first one can see dt <= 0.
PhysicsRead ==
    /\ phys.pc = "read"
    /\ phys.first \/ mgr_now > phys.last
    /\ phys' = [pc |-> "step", last |-> mgr_now, now |-> mgr_now,
                dt |-> IF mgr_now - phys.last <= 0 THEN 1
                       ELSE mgr_now - phys.last,
                ctrl |-> last_ctrl, first |-> FALSE]
    /\ UNCHANGED << storeVars, vehicle, trig_pc >>
    /\ UNCHANGED notMgr

\* The rest of the iteration (loops.py 51-52, conductor.py 338-339): step
\* the vehicle under the vehicle lock.
PhysicsStep ==
    /\ phys.pc = "step"
    /\ vehicle' = step(vehicle, phys.ctrl, phys.dt, phys.now)
    /\ phys' = [phys EXCEPT !.pc = "read", !.ctrl = None]
    /\ UNCHANGED << storeVars, trig_pc >>
    /\ UNCHANGED notMgr

\* The end of the iteration (loops.py 53-56, conductor.py 340-343): sleep the
\* rest of the 1/60 s period, so the next iteration measures dt = 1 tick.
MaxCoastTicks == 80
PhysicsSleep ==
    /\ phys.pc = "read"
    /\ ~phys.first
    /\ mgr_now = phys.last
    /\ mgr_now < MaxCoastTicks
    /\ mgr_now' = mgr_now + 1
    /\ UNCHANGED << variant, last_ctrl, last_ctrl_latency_ms,
                    last_ctrl_recv_wall, last_hb_from_ui, estop_triggered,
                    ctrl_recv_count, ctrl_drop_count, cb, frames_left >>
    /\ UNCHANGED vehicleVars
    /\ UNCHANGED notMgr

\* _handle_estop, first half (conductor.py 318-321,
\* conductor_handlers.py 135-138): vehicle.estop() under the vehicle lock.
HandleEstopVehicle(k, frames) ==
    /\ CanStart(k)
    /\ frames_left > 0
    /\ frames_left' = frames_left - 1
    /\ \E f \in frames : Dispatch(f) = "estop"
    /\ vehicle' = estop(vehicle)
    /\ cb' = [cb EXCEPT ![k] = [pc |-> "estop_latch", snap |-> NoSnapshot]]
    /\ UNCHANGED << variant, mgr_now, last_ctrl, last_ctrl_latency_ms,
                    last_ctrl_recv_wall, last_hb_from_ui, estop_triggered,
                    ctrl_recv_count, ctrl_drop_count >>
    /\ UNCHANGED << phys, trig_pc >>
    /\ UNCHANGED notMgr

\* _handle_estop, second half (conductor.py 322,
\* conductor_handlers.py 139): set the latch, outside the vehicle lock.
HandleEstopLatch(k) ==
    /\ cb[k].pc = "estop_latch"
    /\ estop_triggered' = TRUE
    /\ Finish(k, "estop")
    /\ UNCHANGED << variant, mgr_now, last_ctrl, last_ctrl_latency_ms,
                    last_ctrl_recv_wall, last_hb_from_ui,
                    ctrl_recv_count, ctrl_drop_count, frames_left >>
    /\ UNCHANGED vehicleVars
    /\ UNCHANGED notMgr

\* Conductor.trigger_estop, first half (conductor.py 107-110).
TriggerEstopVehicle ==
    /\ variant = "conductor"
    /\ trig_pc = "idle"
    /\ ~estop_triggered
    /\ vehicle' = estop(vehicle)
    /\ trig_pc' = "latch"
    /\ UNCHANGED << storeVars, phys >>
    /\ UNCHANGED notMgr

\* Conductor.trigger_estop, second half (conductor.py 111).
TriggerEstopLatch ==
    /\ trig_pc = "latch"
    /\ estop_triggered' = TRUE
    /\ trig_pc' = "idle"
    /\ UNCHANGED << variant, mgr_now, last_ctrl, last_ctrl_latency_ms,
                    last_ctrl_recv_wall, last_hb_from_ui,
                    ctrl_recv_count, ctrl_drop_count, cb, frames_left >>
    /\ UNCHANGED << vehicle, phys >>
    /\ UNCHANGED notMgr

\* The Manager sits idle for a while: long enough for a held command to
\* decay halfway, or for the idle interval to pass.
JumpTicks == {CTRL_HOLD_SEC + CTRL_DAMP_SEC \div 2, IDLE_STATE_INTERVAL_SEC}
MgrJump ==
    /\ mgr_now = MaxNow
    /\ \E d \in JumpTicks : mgr_now' = mgr_now + d
    /\ UNCHANGED << variant, last_ctrl, last_ctrl_latency_ms,
                    last_ctrl_recv_wall, last_hb_from_ui, estop_triggered,
                    ctrl_recv_count, ctrl_drop_count, cb, frames_left >>
    /\ UNCHANGED vehicleVars
    /\ UNCHANGED notMgr

\* ---- the message handler from the bytes on: Conductor._on_message after
\* the currency check (conductor.py 222-238) with _handle_ctrl (260-311),
\* _handle_heartbeat (315-316) and _handle_estop (318-322);
\* DataChannelMessageHandler.handle (conductor_handlers.py 45-62) with
\* _handle_ctrl (65-130), _handle_heartbeat (132-133), _handle_estop
\* (135-139).

\* What the transport can deliver: bytes that are not UTF-8, text that is
\* not JSON, a JSON value that is not an object, or one of the object
\* frames on either label.
\* Control frames whose client timestamp is under the key `t`, the type
\* under `type`.
TimestampedFrames == { [BaseFrame EXCEPT !.t = Num(n)] : n \in {0, 1} }
RawFrames ==
    { [kind |-> k, f |-> BaseFrame] :
        k \in {"not_utf8", "not_json", "not_object"} }
    \cup { [kind |-> "object", f |-> [f EXCEPT !.label = l]] :
             f \in Frames \cup TimestampedFrames,
             l \in {ctrl_label, state_label} }

\* The callback leaves everything as it is and returns.
Keep ==
    [last_ctrl |-> last_ctrl, latency_ms |-> last_ctrl_latency_ms,
     recv_wall |-> last_ctrl_recv_wall, hb |-> last_hb_from_ui,
     estop |-> FALSE, recv |-> ctrl_recv_count, drop |-> ctrl_drop_count,
     outcome |-> "returned"]
\* The callback ends in an exception that nothing catches.
Raise(e) == [Keep EXCEPT !.outcome = e]

\* _handle_ctrl.  Conductor returns on a frame without an integer seq (266)
\* and on an unknown command string (271-273), else stores under the lock
\* (294-311).  The handler returns on a frame without an integer seq (71);
\* on an unknown command string preset is None and preset.get raises
\* AttributeError (79-81); on every other frame ControlSnapshot is given
\* manager_recv_at_ms, which it does not take: TypeError (108-117).
handle_ctrl(f) ==
    IF ~IsInt(f.seq) THEN Keep
    ELSE IF IsStr(f.command) /\ ~KnownCommand(f)
    THEN IF variant = "conductor" THEN Keep ELSE Raise("AttributeError")
    ELSE IF variant = "components" THEN Raise("TypeError")
    ELSE LET ts == FirstNumber(<< f.ts, f.t >>)
             snap == Snapshot(f.seq.n, ResolveCommand(f), mgr_now, ts)
         IN  IF IsStale(snap.seq)
             THEN [Keep EXCEPT !.drop = @ + 1]
             ELSE [Keep EXCEPT !.last_ctrl = Some(snap),
                               !.recv = @ + 1,
                               !.recv_wall = Some(Wall),
                               !.latency_ms = IF IsNone(ts) THEN @
                                              ELSE Some(Wall - Val(ts))]

\* data.decode("utf-8") raises UnicodeDecodeError, which is not a
\* json.JSONDecodeError and is not caught (conductor.py 222-226,
\* conductor_handlers.py 47-51); json.loads on text that is not JSON raises
\* JSONDecodeError, caught; payload.get on a value that is not a dict raises
\* AttributeError (conductor.py 227, conductor_handlers.py 52).
handle(raw) ==
    CASE raw.kind = "not_utf8"   -> Raise("UnicodeDecodeError")
      [] raw.kind = "not_json"   -> Keep
      [] raw.kind = "not_object" -> Raise("AttributeError")
      [] OTHER ->
           LET d == Dispatch(raw.f)
           IN  IF d = "ctrl" THEN handle_ctrl(raw.f)
               ELSE IF d = "hb" THEN [Keep EXCEPT !.hb = Some(Wall)]
               ELSE IF d = "estop" THEN [Keep EXCEPT !.estop = TRUE]
               ELSE Keep

NoRx == [raw |-> [kind |-> "none", f |-> BaseFrame], outcome |-> "none"]

\* The transport delivers one frame on the current connection and the
\* callback runs to its end.
OnMessageFrame ==
    /\ frames_left > 0
    /\ frames_left' = frames_left - 1
    /\ \E raw \in RawFrames :
        LET e == handle(raw)
        IN  /\ last_ctrl' = e.last_ctrl
            /\ last_ctrl_latency_ms' = e.latency_ms
            /\ last_ctrl_recv_wall' = e.recv_wall
            /\ last_hb_from_ui' = e.hb
            /\ ctrl_recv_count' = e.recv
            /\ ctrl_drop_count' = e.drop
            /\ estop_triggered' = (estop_triggered \/ e.estop)
            /\ vehicle' = IF e.estop THEN estop(vehicle) ELSE vehicle
            /\ rx' = [raw |-> raw, outcome |-> e.outcome]
    /\ UNCHANGED << variant, mgr_now, cb, phys, trig_pc >>
    /\ UNCHANGED notRx

\* ========================================================================
\*                 MANAGER: state payloads
\* ========================================================================

MaxStateSeq == 2

SbIdle == [pc |-> "idle", vx |-> 0, wz |-> 0, ctrl_age |-> None,
           estop |-> FALSE]

BuildInit ==
    /\ sb = SbIdle
    /\ state_seq = 0
    /\ last_idle_state_emit = 0
    /\ last_payload = None

\* _next_state_seq (conductor.py 441-443, state_payload.py 113-115).
\* (state_seq + 1) % (1 << 31), written so that no intermediate value
\* reaches 2^31.
StateSeqLast == (2 ^ 30 - 1) * 2 + 1
NextStateSeq_skip == IF state_seq = StateSeqLast THEN 1 ELSE state_seq + 1
NextStateSeq == IF state_seq = StateSeqLast THEN 0 ELSE state_seq + 1

\* The heartbeat age a build reports (conductor.py 391-393,
\* state_payload.py 117-121).
HbAge == IF IsNone(last_hb_from_ui) THEN None
         ELSE Some(Wall - Val(last_hb_from_ui))

\* The idle test of a build (conductor.py 402-404, state_payload.py 51-53):
\* the vehicle's control age is beyond the idle interval and the last
\* emission is more recent than that interval, so the build returns {}.
IdleSuppressed(ctrl_age) ==
    /\ IsNone(ctrl_age) \/ Val(ctrl_age) > IDLE_STATE_INTERVAL_SEC
    /\ Wall - last_idle_state_emit < IDLE_STATE_INTERVAL_SEC

\* payload["last_ctrl"] and payload["timeline"] of a payload that a build
\* returns, as the seq of the snapshot attached.  Conductor sets neither key
\* (conductor.py 413-439).  StatePayloadBuilder.build sets them from the
\* store's snapshot (state_payload.py 102-109), and both helpers return None
\* without one (lines 127-128, 161-162); with one, the build does not
\* return (line 143), so _last_timeline_seq stays None.
LastCtrlKey == None
TimelineKey == None

\* A state payload, as far as the model follows it.  engaged_before is not
\* part of the payload: it records that the vehicle's E-Stop was already
\* engaged when the build took its snapshot.
Payload(seq, ok, msg, estop_key, engaged_before) ==
    [seq |-> seq, t |-> Wall, vx |-> sb.vx, wz |-> sb.wz,
     status |-> [ok |-> ok, msg |-> msg, estop |-> estop_key,
                 hb_age |-> HbAge,
                 ctrl_latency_ms |-> last_ctrl_latency_ms],
     last_ctrl |-> LastCtrlKey,
     timeline |-> TimelineKey,
     engaged_before |-> engaged_before]

\* A builder that has been running for 2^31 - 2 builds: the payload built
\* last carries the sequence number before the last one, and the idle stamp
\* is the time of that build.
BuildWrapInit ==
    /\ sb = SbIdle
    /\ state_seq = StateSeqLast - 1
    /\ last_idle_state_emit = Wall
    /\ last_payload = Some(Payload(StateSeqLast - 1, TRUE, "ok", FALSE, FALSE))

\* The first lock section of a build (conductor.py 386-389,
\* state_payload.py 42-45): the vehicle's snapshot, control age and
\* E-Stop flag.
BuildSnapshot ==
    /\ sb.pc = "idle"
    /\ state_seq < MaxStateSeq \/ state_seq >= StateSeqLast - 1
    /\ sb' = [pc |-> "compose", vx |-> vehicle.vx, wz |-> vehicle.wz,
              ctrl_age |-> vehicle._last_ctrl_age,
              estop |-> vehicle._estop_active]
    /\ UNCHANGED << storeVars, vehicleVars, state_seq, last_idle_state_emit,
                    last_payload >>
    /\ UNCHANGED notState

HbStale == ~IsNone(HbAge) /\ Val(HbAge) > HEARTBEAT_IDLE_SEC

\* status.estop as Conductor._build_state_payload sets it
\* (conductor.py 437-438): from the latch alone.
ConductorEstopKey == estop_triggered

\* The rest of Conductor._build_state_payload (conductor.py 391-439).
ConductorCompose ==
    /\ variant = "conductor"
    /\ sb.pc = "compose"
    /\ sb' = SbIdle
    /\ IF IdleSuppressed(sb.ctrl_age)
       THEN UNCHANGED << state_seq, last_idle_state_emit, last_payload >>
       ELSE /\ last_idle_state_emit' = Wall
            /\ state_seq' = NextStateSeq
            /\ last_payload' =
                 Some(Payload(NextStateSeq,
                              ~HbStale /\ ~sb.estop,
                              IF sb.estop THEN "estop"
                              ELSE IF HbStale THEN "hb age" ELSE "ok",
                              ConductorEstopKey, sb.estop))
    /\ UNCHANGED << storeVars, vehicleVars >>
    /\ UNCHANGED notState

\* The rest of StatePayloadBuilder.build (state_payload.py 47-111).  With a
\* snapshot in the control store, _build_last_ctrl_payload reads
\* snapshot.manager_recv_at_ms (line 143), which ControlSnapshot does not
\* have: the build ends in AttributeError after the sequence number and the
\* idle stamp were advanced, and returns no payload.
BuilderCompose ==
    /\ variant = "components"
    /\ sb.pc = "compose"
    /\ sb' = SbIdle
    /\ IF IdleSuppressed(sb.ctrl_age)
       THEN UNCHANGED << state_seq, last_idle_state_emit, last_payload >>
       ELSE /\ last_idle_state_emit' = Wall
            /\ state_seq' = NextStateSeq
            /\ IF ~IsNone(last_ctrl)
               THEN UNCHANGED last_payload
               ELSE last_payload' =
                      LET e == sb.estop \/ estop_triggered
                      IN  Some(Payload(NextStateSeq, ~HbStale /\ ~e,
                                       IF e THEN "estop"
                                       ELSE IF HbStale THEN "hb age"
                                       ELSE "ok",
                                       e, sb.estop))
    /\ UNCHANGED << storeVars, vehicleVars >>
    /\ UNCHANGED notState

\* ========================================================================
\*                 BRIDGE: control transports (src/rpi/transport)
\* ========================================================================

Transports == {"webrtc", "mqtt"}

\* What a transport can be handed: bytes that are not UTF-8, text that is
\* not JSON, a JSON value that is not an object, or an object with a type
\* under `type` or `t`.  MQTT delivers the subscribed ctrl topic only
\* (mqtt_server.py 105).
TpFrames ==
    { [kind |-> k, label |-> l, type |-> Nul, t |-> Nul] :
        k \in {"not_utf8", "not_json", "not_object"},
        l \in {ctrl_label, state_label} }
    \cup { [kind |-> "object", label |-> l, type |-> ty, t |-> tt] :
             l \in {ctrl_label, state_label},
             ty \in {Nul, Str("ctrl"), Str("CTRL"), Str("cmd"), Str("hb")},
             tt \in {Nul, Str("ctrl"), Num(1)} }

\* str(payload.get("type") or payload.get("t") or "").lower()
\* (webrtc_server.py 142).
TpMsgType(f) ==
    LET v == Or(f.type, f.t)
    IN  IF IsStr(v) THEN Lower(v.s) ELSE IF IsInt(v) THEN "1" ELSE ""

NoTpFrame == [kind |-> "none", label |-> ctrl_label, type |-> Nul, t |-> Nul]
TpNothing == [calls |-> 0, cb_raised |-> FALSE, escaped |-> FALSE]

TransportInit ==
    tp = [callback |-> [x \in Transports |-> FALSE],
          closed |-> [x \in Transports |-> FALSE],
          after_raise |-> [x \in Transports |-> FALSE],
          on |-> "webrtc", frame |-> NoTpFrame, did |-> TpNothing]

\* callback(payload) inside `try ... except Exception` (webrtc_server.py
\* 154-157, mqtt_server.py 115-118, 131-135): whether the callback's
\* exception leaves the handler.
guarded_call_bare(raises) == raises
guarded_call(raises) == FALSE

\* One invocation of the registered callback, which raises or not.
TpCall(did, raises) ==
    [calls |-> did.calls + 1, cb_raised |-> did.cb_raised \/ raises,
     escaped |-> did.escaped \/ guarded_call(raises)]

\* WebRTCServerTransport._on_message (webrtc_server.py 126-157).  A JSON
\* value that is not an object has no .get: AttributeError at line 142,
\* outside every try.
webrtc_on_message(f, raises) ==
    IF f.label # ctrl_label THEN TpNothing
    ELSE IF f.kind \in {"not_utf8", "not_json"} THEN TpNothing
    ELSE IF f.kind = "not_object" THEN [TpNothing EXCEPT !.escaped = TRUE]
    ELSE IF TpMsgType(f) \notin {"cmd", "ctrl"} THEN TpNothing
    ELSE IF ~tp.callback["webrtc"] THEN TpNothing
    ELSE TpCall(TpNothing, raises[1])

\* MQTTServerTransport._on_message (mqtt_server.py 111-135).  The first try
\* block decodes, parses and calls self._ctrl_callback(data) (112-116);
\* any exception there, the TypeError of calling None included, is logged
\* and the handler returns (117-119).  Otherwise the text is parsed again
\* and the callback called a second time (121-135).
mqtt_on_message(f, raises) ==
    IF f.kind \in {"not_utf8", "not_json"} THEN TpNothing
    ELSE IF ~tp.callback["mqtt"] THEN TpNothing
    ELSE LET first == TpCall(TpNothing, raises[1])
         IN  IF raises[1] THEN first ELSE TpCall(first, raises[2])

\* on_ctrl(callback) (webrtc_server.py 44-45, mqtt_server.py 58-59).
TransportOnCtrl(x) ==
    /\ ~tp.callback[x]
    /\ tp' = [tp EXCEPT !.callback[x] = TRUE]
    /\ UNCHANGED notRpi

\* The transport thread hands a frame to _on_message; the callback, each
\* time it is invoked, returns or raises.
TransportMessage(x) ==
    /\ ~tp.closed[x]
    /\ \E f \in TpFrames, raises \in BOOLEAN \X BOOLEAN :
        /\ x = "mqtt" => f.label = ctrl_label
        /\ LET did == IF x = "webrtc" THEN webrtc_on_message(f, raises)
                      ELSE mqtt_on_message(f, raises)
           IN  tp' = [tp EXCEPT !.on = x, !.frame = f, !.did = did,
                                !.after_raise[x] =
                                    @ \/ (tp.did.cb_raised /\ tp.on = x)]
    /\ UNCHANGED notRpi

\* close() (webrtc_server.py 85-95, mqtt_server.py 76-86) or the
\* transport's own disconnect (webrtc_server.py 159-161, mqtt_server.py
\* 104-109 with rc = 0).
TransportClose(x) ==
    /\ ~tp.closed[x]
    /\ tp' = [tp EXCEPT !.closed[x] = TRUE]
    /\ UNCHANGED notRpi

\* ========================================================================
\*                 MANAGER: a snapshot ageing under step
\* ========================================================================

\* ---- domain/vehicle.py, lines 34-48
\* The oldest age looked at, in ticks: 1.5 s.
MaxHeldAge == 90
HeldTicks == {1, 5, 30}
HeldTriples ==
    { << th, st, br >> : th \in {-One, One \div 2, One},
                         st \in {-(One \div 3), 0, One},
                         br \in {0, (4 * One) \div 10, One} }

HeldOf(triple, now) ==
    [ctrl |-> triple, now |-> now,
     out |-> HeldCommand(Some(Snapshot(1, triple, 0, None)), now)]

HeldInit == hc = HeldOf(<< 0, 0, 0 >>, 0)

\* step with a snapshot just stored: received_at is this step's now.
HeldFresh ==
    /\ \E triple \in HeldTriples : hc' = HeldOf(triple, 0)
    /\ UNCHANGED notHeld

\* A later step with the same snapshot.
HeldAge ==
    /\ \E d \in HeldTicks :
        /\ hc.now + d <= MaxHeldAge
        /\ hc' = HeldOf(hc.ctrl, hc.now + d)
    /\ UNCHANGED notHeld

\* ========================================================================
\*                 BRIDGE: the velocity sink's lifecycle
\* ========================================================================

\* ---- publisher.py
\* Nodes and their publishers are numbered in the order start() creates
\* them; 0 stands for None.
MaxStarts == 2
MaxTwists == 2
StopCallers == {1, 2}

NoObject == 0

NoStopCall == [pc |-> "idle", node |-> NoObject, publisher |-> NoObject]

\* __init__, lines 28-32.
PublisherInit ==
    cvp = [node |-> NoObject, publisher |-> NoObject, created |-> 0,
           destroyed |-> {}, twists |-> 0, used |-> NoObject,
           stop |-> [t \in StopCallers |-> NoStopCall]]

\* publish, line 51, `if self._publisher is None: return`, without the test.
publisher_usable_unguarded(publisher) == TRUE

\* publish, line 51: the test that lets a Twist through.
publisher_usable(publisher) == publisher # NoObject

\* start, lines 35-47, all of it under the lock: a second start returns at
\* line 37.
PublisherStart ==
    /\ cvp.created < MaxStarts \/ cvp.node # NoObject
    /\ cvp' = IF cvp.node # NoObject
              THEN cvp
              ELSE [cvp EXCEPT !.created = @ + 1,
                               !.node = cvp.created + 1,
                               !.publisher = cvp.created + 1]
    /\ UNCHANGED notSink

\* publish and publish_zero, lines 49-65, all of it under the lock.
PublisherPublish ==
    /\ cvp.twists < MaxTwists
    /\ cvp' = IF publisher_usable(cvp.publisher)
              THEN [cvp EXCEPT !.twists = @ + 1, !.used = cvp.publisher]
              ELSE cvp
    /\ UNCHANGED notSink

\* stop, lines 68-77: under the lock the fields are copied to locals and
\* cleared.
PublisherStopLocked(t) ==
    /\ cvp.stop[t].pc = "idle"
    /\ cvp' = [cvp EXCEPT !.stop[t] = [pc |-> "teardown", node |-> cvp.node,
                                       publisher |-> cvp.publisher],
                          !.node = NoObject,
                          !.publisher = NoObject]
    /\ UNCHANGED notSink

\* stop, lines 79-95, after the lock is released: the publisher and the
\* node held in the locals are destroyed.
PublisherStopTeardown(t) ==
    /\ cvp.stop[t].pc = "teardown"
    /\ cvp' = [cvp EXCEPT
                 !.stop[t] = NoStopCall,
                 !.destroyed =
                     IF cvp.stop[t].node # NoObject
                        /\ cvp.stop[t].publisher # NoObject
                     THEN @ \cup {cvp.stop[t].publisher} ELSE @]
    /\ UNCHANGED notSink

\* ========================================================================
\*                 MANAGER: connection lifecycle and stop
\* ========================================================================

\* How many connection objects exist at once.  A connection that is closed
\* and has no callback in flight is forgotten and its name reused, so the
\* loop can reconnect without end.
MaxConns == 2
Conns == 1..MaxConns
NoConn == 0
Labels == {ctrl_label, state_label}
\* The tick loops, in the order Conductor.start() starts them
\* (conductor.py 82-85).
ActivityOrder == << "physics", "state", "heartbeat", "stats" >>
Activities == {ActivityOrder[i] : i \in 1..Len(ActivityOrder)}

NoneReady == [l \in Labels |-> FALSE]
NoCallback == [kind |-> "none", c |-> NoConn, label |-> ctrl_label]

\* ---- the signaling handlers of the current connection
\* (conductor_connection.py 82-95 and 154-170, conductor.py 190-209)
SignalIds == {None, Some(1), Some(2)}
OfferMessages ==
    [type : {"offer", "answer"}, event_type : {""},
     connection_id : SignalIds]
NotifyMessages ==
    [type : {"notify", "ping"},
     event_type : {"connection.created", "connection.updated"},
     connection_id : SignalIds]
NoMessage == [type |-> "", event_type |-> "", connection_id |-> None]

\* __init__, lines 40-46.
SignalInit ==
    sig = [connection_id |-> None, connected_event |-> FALSE,
           connection_alive |-> FALSE, msg |-> NoMessage]

\* The test of _on_notify, lines 165-169; msg.get("connection_id") is None
\* for a message without the field.
notify_matches(msg, captured_id) ==
    /\ msg.type = "notify"
    /\ msg.event_type = "connection.created"
    /\ msg.connection_id = captured_id

\* run, lines 82-85: a new connection was registered.
SignalReset ==
    /\ sig' = [sig EXCEPT !.connection_id = None,
                          !.connected_event = FALSE,
                          !.connection_alive = FALSE]
    /\ UNCHANGED notSig

\* _on_set_offer on the current connection, lines 157-159.
SignalOffer ==
    /\ \E m \in OfferMessages :
        sig' = [sig EXCEPT !.msg = m,
                           !.connection_id = IF m.type = "offer"
                                             THEN m.connection_id ELSE @]
    /\ UNCHANGED notSig

\* _on_notify on the current connection, lines 163-170.
SignalNotify ==
    /\ \E m \in NotifyMessages :
        sig' = [sig EXCEPT !.msg = m,
                           !.connected_event =
                               @ \/ notify_matches(m, sig.connection_id)]
    /\ UNCHANGED notSig

\* run, lines 89-95: the wait on _connected_event returned true.
SignalConnected ==
    /\ sig.connected_event
    /\ ~sig.connection_alive
    /\ sig' = [sig EXCEPT !.connection_alive = TRUE]
    /\ UNCHANGED notSig

\* ---- the heartbeat loop (conductor.py 358-368, 464-482)
HEARTBEAT_SEC == TicksPerSec

\* Conductor.__init__, line 66: _last_hb_sent = time.time().
HeartbeatInit ==
    hbl = [pc |-> "idle", conn |-> NoConn, last_hb_sent |-> Wall]

\* _heartbeat_loop, lines 361-365: the interval has passed.
HeartbeatDue ==
    LET ctrl_age == vehicle._last_ctrl_age
        idle == IsNone(ctrl_age)
                  \/ Val(ctrl_age) > CTRL_HOLD_SEC + CTRL_DAMP_SEC
        interval == IF idle THEN HEARTBEAT_IDLE_SEC ELSE HEARTBEAT_SEC
    IN  Wall - hbl.last_hb_sent >= interval

\* One due iteration of _heartbeat_loop up to the send: _send_heartbeat
\* returns at once when connection_alive is clear (465-466) or there is no
\* connection (475-478); the loop then stamps _last_hb_sent (367).  The
\* callable that the refactored HeartbeatLoop is given is not among the
\* sources, so the loop is followed for Conductor only.
HeartbeatLoopRun ==
    /\ variant = "conductor"
    /\ act["heartbeat"] = "run"
    /\ ~stop_event
    /\ hbl.pc = "idle"
    /\ HeartbeatDue
    /\ hbl' = IF connection_alive /\ conn # NoConn
              THEN [pc |-> "send", conn |-> conn, last_hb_sent |-> Wall]
              ELSE [hbl EXCEPT !.last_hb_sent = Wall]
    /\ UNCHANGED notHb

\* _send_heartbeat, lines 479-482: conn.send_data_channel(state_label,
\* payload) inside try/except Exception.
HeartbeatSendDataChannel ==
    /\ hbl.pc = "send"
    /\ hbl' = [hbl EXCEPT !.pc = "idle", !.conn = NoConn]
    /\ UNCHANGED notHb

\* ========================================================================
\*          MANAGER: the connection mutex and conn.disconnect()
\* ========================================================================

\* ---- conductor.py 90-105 and 175-188, conductor_connection.py 108-133,
\* manager.py 238-254 and 292-303, dc_manager.py 27-30
\* The three implementations of the Manager in the repository: Conductor,
\* ConductorConnectionManager and ManagerNode; "none" before start().
LockImpls == {"conductor", "components", "manager"}
\* stop() / shutdown(), the finally block of _connection_loop, and the
\* SDK thread delivering on_disconnect.
LockThreads == {"stop", "loop", "callback"}
LockNames == {"conn", "dc"}
\* The connections registered and the callbacks delivered in a run.
MaxLockSessions == 2
MaxLockCallbacks == 2

LockInit ==
    lk = [impl |-> "none", conn |-> FALSE,
          owner |-> [l \in LockNames |-> "free"],
          pc |-> [t \in LockThreads |-> "idle"],
          taken |-> [t \in LockThreads |-> FALSE],
          sessions |-> 0, callbacks |-> 0]

\* The mutexes a thread holds.
locks_held(t) == {l \in LockNames : lk.owner[l] = t}

\* start(): the program is one of the three; its loop has registered a
\* connection.
LockStart ==
    /\ lk.impl = "none"
    /\ \E impl \in LockImpls : lk' = [lk EXCEPT !.impl = impl, !.conn = TRUE,
                                                !.sessions = 1]
    /\ UNCHANGED notLock

\* `with self._conn_lock:` entered by stop(), by the finally block or by a
\* callback.
ConnLockEnter(t) ==
    /\ lk.impl # "none"
    /\ lk.pc[t] = "idle"
    /\ t = "callback" => lk.callbacks < MaxLockCallbacks
    /\ lk.owner["conn"] = "free"
    /\ lk' = [lk EXCEPT !.owner["conn"] = t, !.pc[t] = "locked"]
    /\ UNCHANGED notLock

\* Conductor.stop 95-97, Conductor._connection_loop 176-178,
\* ConductorConnectionManager 109-111 and 126-127: take the connection into
\* a local (shutdown() leaves the field as it is) and leave the block.
TakeConn(t) ==
    /\ lk.impl \in {"conductor", "components"}
    /\ t \in {"stop", "loop"}
    /\ lk.pc[t] = "locked"
    /\ lk' = [lk EXCEPT !.taken[t] = lk.conn,
                        !.conn = IF lk.impl = "components" /\ t = "stop"
                                 THEN @ ELSE FALSE,
                        !.owner["conn"] = "free",
                        !.pc[t] = IF t = "loop" THEN "detach" ELSE "call"]
    /\ UNCHANGED notLock

\* self._dc.detach() (dc_manager.py 27-30), after the block: the finally
\* block calls it before disconnect(), Conductor.stop after it.
Detach(t) ==
    /\ lk.pc[t] = "detach"
    /\ lk.owner["dc"] = "free"
    /\ lk' = [lk EXCEPT !.owner["dc"] = t, !.pc[t] = "detaching"]
    /\ UNCHANGED notLock
DetachReturn(t) ==
    /\ lk.pc[t] = "detaching"
    /\ lk' = [lk EXCEPT !.owner["dc"] = "free",
                        !.pc[t] = IF t = "loop" THEN "call" ELSE "done"]
    /\ UNCHANGED notLock

\* `if conn is not None: conn.disconnect()` on the local.
DisconnectCall(t) ==
    /\ lk.pc[t] = "call"
    /\ lk' = [lk EXCEPT !.pc[t] = IF lk.taken[t] THEN "disconnect"
                                  ELSE IF t = "stop" /\ lk.impl = "conductor"
                                  THEN "detach" ELSE "done"]
    /\ UNCHANGED notLock

\* ManagerNode.stop 244-250 and ManagerNode._connection_loop 293-299:
\* `if self._conn is not None: self._conn.disconnect()` inside the block.
ManagerDisconnectCall(t) ==
    /\ lk.impl = "manager"
    /\ t \in {"stop", "loop"}
    /\ lk.pc[t] = "locked"
    /\ lk' = [lk EXCEPT !.pc[t] = IF lk.conn THEN "disconnect" ELSE "done",
                        !.owner["conn"] = IF lk.conn THEN @ ELSE "free"]
    /\ UNCHANGED notLock

\* disconnect() returns (or raises into `except Exception: pass`).  In
\* ManagerNode the field is cleared next and the block left.
DisconnectReturn(t) ==
    /\ lk.pc[t] = "disconnect"
    /\ lk' = IF lk.impl = "manager"
             THEN [lk EXCEPT !.conn = FALSE, !.owner["conn"] = "free",
                             !.pc[t] = "done"]
             ELSE [lk EXCEPT !.taken[t] = FALSE,
                             !.pc[t] = IF t = "stop" /\ lk.impl = "conductor"
                                       THEN "detach" ELSE "done"]
    /\ UNCHANGED notLock

\* A callback's currency check (_on_disconnect and the others): the block
\* holds the comparison only; the callback then returns.
CallbackLeave ==
    /\ lk.pc["callback"] = "locked"
    /\ lk' = [lk EXCEPT !.owner["conn"] = "free", !.pc["callback"] = "idle",
                        !.callbacks = @ + 1]
    /\ UNCHANGED notLock

\* The next iteration of the loop, until stop() has begun:
\* `with self._conn_lock: self._conn = conn`.
LoopRegister ==
    /\ lk.pc["loop"] = "done"
    /\ lk.pc["stop"] = "idle"
    /\ lk.owner["conn"] = "free"
    /\ lk.sessions < MaxLockSessions
    /\ lk' = [lk EXCEPT !.conn = TRUE, !.pc["loop"] = "idle",
                        !.sessions = @ + 1]
    /\ UNCHANGED notLock

\* ========================================================================
\*            MANAGER: ctrl frames across transport sessions
\* ========================================================================

\* ---- conductor.py 122-188 and 218-232, conductor_state.py 9-31
\* The ctrl frames a UI sends: every seq, the same command.
SessionFrame(n) == [BaseFrame EXCEPT !.seq = Num(n), !.command = Str("Left")]

SessInit == sess = [epoch |-> 0, up |-> FALSE, log |-> << >>]

\* The frames handed to the handler so far.
FramesHandled == MaxMgrFrames - frames_left

\* The transport delivers a ctrl frame on the open connection and
\* _on_message finds the connection current (conductor.py 218-222,
\* conductor_connection.py 178-180).  The frame counts for a new session
\* when the connection was seen gone since the frame before.
SessionDeliver ==
    /\ frames_left > 0
    /\ Len(sess.log) = FramesHandled
    /\ cb[1].pc = "idle"
    /\ \E c \in Conns : sdk[c] = "open" /\ c = conn
    /\ \E n \in 1..MaxSeq :
        LET e == IF sess.up THEN sess.epoch ELSE sess.epoch + 1
        IN  sess' = [epoch |-> e, up |-> TRUE,
                     log |-> Append(sess.log, << e, n >>)]
    /\ UNCHANGED notSess

\* The handler takes the frame delivered (conductor.py 223-232 with
\* _handle_ctrl, conductor_handlers.py 45-56 with _handle_ctrl).
SessionCtrl ==
    /\ Len(sess.log) > FramesHandled
    /\ LET f == SessionFrame(sess.log[Len(sess.log)][2])
       IN  \/ ConductorParseCtrl(1, {f})
           \/ HandlerHandleCtrl(1, {f})

\* The loop has taken the connection out of its field
\* (conductor.py 176-178, conductor_connection.py 109-111): the session is
\* over.
SessionOver ==
    /\ sess.up
    /\ conn = NoConn
    /\ sess' = [sess EXCEPT !.up = FALSE]
    /\ UNCHANGED notSess

\* A session that begins by clearing the control store.
RegisterConnection_clearing ==
    /\ loop.pc = "register"
    /\ conn' = loop.conn
    /\ loop' = [loop EXCEPT !.pc = "attach"]
    /\ last_ctrl' = None
    /\ UNCHANGED << stop_event, reconnect_event, connected_event,
                    disconnected_event, connection_alive, connection_id,
                    dc, sdk, cbk, stopper, act >>
    /\ UNCHANGED << variant, mgr_now, last_ctrl_latency_ms,
                    last_ctrl_recv_wall, last_hb_from_ui, estop_triggered,
                    ctrl_recv_count, ctrl_drop_count, cb, frames_left >>
    /\ UNCHANGED << convVars, bridgeVars, vehicleVars, buildVars, floatVars,
                    pubVars, rxVars, rpiVars, sinkVars, heldVars, hbVars,
                    seenVars, sigVars, lockVars, sessVars,
                    flushVars >>

\* ========================================================================
\*        STATE PUBLISHER: the loop that forwards queued states
\* ========================================================================

\* ---- rpi_state_publisher.py
\* The states queued: a well-formed one, or one without 'pose', which
\* _normalise_state rejects.
QueuedStates == {"state", "nopose"}
MaxQueue == 2
\* The calls of publish_state in a run.
MaxPublished == 3
InFlush == {"consume", "source", "normalise", "send"}

\* RaspberryPiStatePublisher.__init__ (lines 30-40).
FlushInit ==
    fl = [pc |-> "unstarted", queue |-> << >>, published |-> 0,
          source |-> "none", state |-> "none", stopped |-> FALSE]

\* main with --demo (lines 325-326): set_state_source(_demo_state_source),
\* a source that returns a state on every call (268-288).
SetStateSource ==
    /\ fl.pc = "unstarted"
    /\ fl.source = "none"
    /\ fl' = [fl EXCEPT !.source = "demo"]
    /\ UNCHANGED notFlush

\* start() (lines 55-65).
FlushStart ==
    /\ fl.pc = "unstarted"
    /\ fl' = [fl EXCEPT !.pc = "top"]
    /\ UNCHANGED notFlush

\* publish_state (lines 74-91), from the stdin reader or a caller: put
\* without blocking, dropping the state when the queue is full.
PublishState ==
    /\ fl.published < MaxPublished
    /\ \E st \in QueuedStates :
        fl' = [fl EXCEPT !.published = @ + 1,
                         !.queue = IF Len(@) < MaxQueue THEN Append(@, st)
                                   ELSE @]
    /\ UNCHANGED notFlush

\* stop() sets the stop event.
FlushStop ==
    /\ fl.pc # "unstarted"
    /\ ~fl.stopped
    /\ fl' = [fl EXCEPT !.stopped = TRUE]
    /\ UNCHANGED notFlush

\* _state_loop, `while not self._stop_event.is_set()` (line 95).
FlushLoopTop ==
    /\ fl.pc = "top"
    /\ fl' = [fl EXCEPT !.pc = IF fl.stopped THEN "done" ELSE "ready"]
    /\ UNCHANGED notFlush

\* Lines 96-99: flush when the connection is alive and the state label
\* ready.
FlushReady ==
    /\ fl.pc = "ready"
    /\ \E ready \in BOOLEAN :
        fl' = [fl EXCEPT !.pc = IF ready THEN "consume" ELSE "sleep"]
    /\ UNCHANGED notFlush

\* _flush_pending_states, lines 107-112 with _consume_state (118-123):
\* take the next queued state; with the queue empty, turn to the source if
\* there is one, else break.
FlushConsume ==
    /\ fl.pc = "consume"
    /\ fl' = IF fl.queue # << >>
             THEN [fl EXCEPT !.state = Head(fl.queue),
                             !.queue = Tail(fl.queue), !.pc = "normalise"]
             ELSE IF fl.source # "none"
             THEN [fl EXCEPT !.pc = "source"]
             ELSE [fl EXCEPT !.state = "none", !.pc = "sleep"]
    /\ UNCHANGED notFlush

\* Line 110 with _invoke_state_source (125-132): the source's state.
FlushSource ==
    /\ fl.pc = "source"
    /\ fl' = [fl EXCEPT !.state = "state", !.pc = "normalise"]
    /\ UNCHANGED notFlush

\* Lines 113-115 with _normalise_state (134-141): a state without 'pose'
\* gives None and the loop continues.
FlushNormalise ==
    /\ fl.pc = "normalise"
    /\ fl' = [fl EXCEPT !.pc = IF fl.state = "nopose" THEN "consume"
                               ELSE "send"]
    /\ UNCHANGED notFlush

\* Line 116: _send_state(payload), then the next round of `while True`.
FlushSend ==
    /\ fl.pc = "send"
    /\ fl' = [fl EXCEPT !.state = "none", !.pc = "consume"]
    /\ UNCHANGED notFlush

\* Lines 100-104: sleep the rest of the period.
FlushSleep ==
    /\ fl.pc = "sleep"
    /\ fl' = [fl EXCEPT !.pc = "top"]
    /\ UNCHANGED notFlush

\* The state after Conductor.start() / ConductorConnectionManager.start():
\* the reconnect signal set, every thread at the top of its loop.
ConnInit ==
    /\ stop_event = FALSE
    /\ reconnect_event = TRUE
    /\ connected_event = FALSE
    /\ disconnected_event = FALSE
    /\ connection_alive = FALSE
    /\ conn = NoConn
    /\ connection_id = NoConn
    /\ dc = [conn |-> NoConn, ready |-> NoneReady]
    /\ sdk = [c \in Conns |-> "unused"]
    /\ cbk = NoCallback
    /\ loop = [pc |-> "top", conn |-> NoConn]
    /\ stopper = [pc |-> "idle", conn |-> NoConn]
    /\ act = [a \in Activities |-> "run"]
    /\ rx = NoRx
    /\ TransportInit
    /\ PublisherInit
    /\ HeldInit
    /\ HeartbeatInit
    /\ estop_handled = FALSE
    /\ SignalInit
    /\ LockInit
    /\ SessInit
    /\ FlushInit
    /\ pub = [pc |-> "idle", conn |-> NoConn, tried |-> 0, ret |-> "none",
              logged |-> FALSE, first |-> TRUE, sent |-> None]

\* ---- adapters/dc_manager.py
attach(c) == [conn |-> c, ready |-> NoneReady]
detach == [conn |-> NoConn, ready |-> NoneReady]
mark_ready(label) == [dc EXCEPT !.ready[label] = TRUE]
is_ready(label) == dc.ready[label]

\* ---- the transport (sora_sdk), as the Manager sees it.  A connection is
\* "new" once created, "connecting" after connect(), "offered" once its
\* offer was delivered, "open" once connection.created was notified,
\* "closing" when it has ended and on_disconnect is still to come; after
\* that it is forgotten ("unused").
Live == {"connecting", "offered", "open"}

\* conn.disconnect().
Disconnect(c) ==
    IF c = NoConn THEN sdk
    ELSE [sdk EXCEPT ![c] = IF @ \in Live THEN "closing"
                            ELSE IF @ = "new" THEN "unused" ELSE @]

\* _is_current_conn / the check at the head of every callback
\* (conductor_connection.py 201-203, conductor.py 192-194).
IsCurrent(c) == c = conn

\* The transport calls on_set_offer, on_notify, on_data_channel or
\* on_disconnect for connection c; the callback checks under the lock that
\* c is the current connection and returns if it is not
\* (conductor_connection.py 154-156, 161-163, 172-174, 189-190;
\* conductor.py 191-194, 199-202, 211-214, 246-248).
CallbackCheck(kind, c, label) ==
    /\ cbk = NoCallback
    /\ cbk' = IF IsCurrent(c) THEN [kind |-> kind, c |-> c, label |-> label]
              ELSE NoCallback

SdkOffer ==
    /\ \E c \in Conns :
        /\ sdk[c] = "connecting"
        /\ sdk' = [sdk EXCEPT ![c] = "offered"]
        /\ CallbackCheck("offer", c, ctrl_label)
    /\ UNCHANGED << stop_event, reconnect_event, connected_event,
                    disconnected_event, connection_alive, conn,
                    connection_id, dc, loop, stopper, act >>
    /\ UNCHANGED notConn

SdkNotify ==
    /\ \E c \in Conns :
        /\ sdk[c] = "offered"
        /\ sdk' = [sdk EXCEPT ![c] = "open"]
        /\ CallbackCheck("notify", c, ctrl_label)
    /\ UNCHANGED << stop_event, reconnect_event, connected_event,
                    disconnected_event, connection_alive, conn,
                    connection_id, dc, loop, stopper, act >>
    /\ UNCHANGED notConn

SdkDataChannel ==
    /\ \E c \in Conns, label \in Labels :
        /\ sdk[c] \in {"offered", "open"}
        /\ ~(IsCurrent(c) /\ is_ready(label))
        /\ CallbackCheck("dc", c, label)
    /\ UNCHANGED << stop_event, reconnect_event, connected_event,
                    disconnected_event, connection_alive, conn,
                    connection_id, dc, sdk, loop, stopper, act >>
    /\ UNCHANGED notConn

\* The connection ends on its own: the network or the remote side.
SdkClose ==
    /\ \E c \in Conns :
        /\ sdk[c] \in Live
        /\ sdk' = [sdk EXCEPT ![c] = "closing"]
    /\ UNCHANGED << stop_event, reconnect_event, connected_event,
                    disconnected_event, connection_alive, conn,
                    connection_id, dc, cbk, loop, stopper, act >>
    /\ UNCHANGED notConn

SdkDisconnect ==
    /\ \E c \in Conns :
        /\ sdk[c] = "closing"
        /\ sdk' = [sdk EXCEPT ![c] = "unused"]
        /\ CallbackCheck("disc", c, ctrl_label)
    /\ UNCHANGED << stop_event, reconnect_event, connected_event,
                    disconnected_event, connection_alive, conn,
                    connection_id, dc, loop, stopper, act >>
    /\ UNCHANGED notConn

\* _on_set_offer after the check (conductor_connection.py 157-159,
\* conductor.py 195-197).
OnSetOffer ==
    /\ cbk.kind = "offer"
    /\ connection_id' = cbk.c
    /\ cbk' = NoCallback
    /\ UNCHANGED << stop_event, reconnect_event, connected_event,
                    disconnected_event, connection_alive, conn, dc, sdk,
                    loop, stopper, act >>
    /\ UNCHANGED notConn

\* _on_notify after the check (conductor_connection.py 164-170,
\* conductor.py 203-209): connection.created with the offer's id.
OnNotify ==
    /\ cbk.kind = "notify"
    /\ connected_event' = (connected_event \/ connection_id = cbk.c)
    /\ cbk' = NoCallback
    /\ UNCHANGED << stop_event, reconnect_event, disconnected_event,
                    connection_alive, conn, connection_id, dc, sdk, loop,
                    stopper, act >>
    /\ UNCHANGED notConn

\* _on_data_channel after the check (conductor_connection.py 175,
\* conductor.py 215).
OnDataChannel ==
    /\ cbk.kind = "dc"
    /\ dc' = mark_ready(cbk.label)
    /\ cbk' = NoCallback
    /\ UNCHANGED << stop_event, reconnect_event, connected_event,
                    disconnected_event, connection_alive, conn,
                    connection_id, sdk, loop, stopper, act >>
    /\ UNCHANGED notConn

\* _on_disconnect after the check (conductor_connection.py 198-199,
\* conductor.py 256-257).
OnDisconnect ==
    /\ cbk.kind = "disc"
    /\ connection_alive' = FALSE
    /\ disconnected_event' = TRUE
    /\ cbk' = NoCallback
    /\ UNCHANGED << stop_event, reconnect_event, connected_event, conn,
                    connection_id, dc, sdk, loop, stopper, act >>
    /\ UNCHANGED notConn

\* The transport calls on_message for connection c with a heartbeat frame;
\* the currency check (conductor.py 218-222, conductor_connection.py
\* 178-180).
SdkMessage ==
    /\ \E c \in Conns, label \in Labels :
        /\ sdk[c] = "open"
        /\ CallbackCheck("msg", c, label)
    /\ UNCHANGED << stop_event, reconnect_event, connected_event,
                    disconnected_event, connection_alive, conn,
                    connection_id, dc, sdk, loop, stopper, act >>
    /\ UNCHANGED notConn

\* _on_message after the check: the frame is decoded and delivered to the
\* dispatch, which stamps the heartbeat (conductor.py 223-234, 315-316;
\* conductor_connection.py 181, conductor_handlers.py 45-58, 132-133).
OnMessage ==
    /\ cbk.kind = "msg"
    /\ last_hb_from_ui' = Some(Wall)
    /\ cbk' = NoCallback
    /\ UNCHANGED << variant, mgr_now, last_ctrl, last_ctrl_latency_ms,
                    last_ctrl_recv_wall, estop_triggered,
                    ctrl_recv_count, ctrl_drop_count, cb, frames_left >>
    /\ UNCHANGED << convVars, bridgeVars, vehicleVars, buildVars, floatVars,
                    pubVars, rxVars, rpiVars, sinkVars, heldVars,
                    hbVars, seenVars,
                    sigVars,
                    lockVars,
                    sessVars,
                    flushVars >>
    /\ UNCHANGED << stop_event, reconnect_event, connected_event,
                    disconnected_event, connection_alive, conn,
                    connection_id, dc, sdk, loop, stopper, act >>

\* The loop condition, `while not stop_event.is_set()`
\* (conductor.py 123, conductor_connection.py 53).
LoopTop ==
    /\ loop.pc = "top"
    /\ loop' = [loop EXCEPT !.pc = IF stop_event THEN "done" ELSE "wait"]
    /\ UNCHANGED << stop_event, reconnect_event, connected_event,
                    disconnected_event, connection_alive, conn,
                    connection_id, dc, sdk, cbk, stopper, act >>
    /\ UNCHANGED notConn

\* reconnect_event.wait() returns, then the stop check
\* (conductor.py 124-126, conductor_connection.py 54-56).
WaitReconnect ==
    /\ loop.pc = "wait"
    /\ reconnect_event
    /\ loop' = [loop EXCEPT !.pc = IF stop_event THEN "done" ELSE "clear"]
    /\ UNCHANGED << stop_event, reconnect_event, connected_event,
                    disconnected_event, connection_alive, conn,
                    connection_id, dc, sdk, cbk, stopper, act >>
    /\ UNCHANGED notConn

\* conductor.py 127, conductor_connection.py 57.
ClearReconnect ==
    /\ loop.pc = "clear"
    /\ reconnect_event' = FALSE
    /\ loop' = [loop EXCEPT !.pc = "create"]
    /\ UNCHANGED << stop_event, connected_event, disconnected_event,
                    connection_alive, conn, connection_id, dc, sdk, cbk,
                    stopper, act >>
    /\ UNCHANGED notConn

\* The names a new connection can take: not the current one, nor one that a
\* callback in flight, the stopping thread or the sending thread still
\* refers to, nor one the transport still runs.
FreeConns ==
    {c \in Conns : /\ sdk[c] \notin Live \cup {"new"}
                   /\ c # conn /\ c # cbk.c /\ c # stopper.conn
                   /\ c # pub.conn}

\* create_connection(...) (conductor.py 129-146,
\* conductor_connection.py 60-77).
CreateConnection ==
    /\ loop.pc = "create"
    /\ \E c \in FreeConns :
        /\ sdk' = [sdk EXCEPT ![c] = "new"]
        /\ loop' = [pc |-> "register", conn |-> c]
    /\ UNCHANGED << stop_event, reconnect_event, connected_event,
                    disconnected_event, connection_alive, conn,
                    connection_id, dc, cbk, stopper, act >>
    /\ UNCHANGED notConn

\* create_connection or connect raises; the except clause logs and sleeps
\* (conductor.py 168-174, conductor_connection.py 101-107).
LoopException ==
    /\ loop.pc \in {"create", "connect"}
    /\ loop' = [loop EXCEPT !.pc = "finally"]
    /\ UNCHANGED << stop_event, reconnect_event, connected_event,
                    disconnected_event, connection_alive, conn,
                    connection_id, dc, sdk, cbk, stopper, act >>
    /\ UNCHANGED notConn

\* conductor.py 147-148, conductor_connection.py 78-79.
register_connection ==
    /\ loop.pc = "register"
    /\ conn' = loop.conn
    /\ loop' = [loop EXCEPT !.pc = "attach"]
    /\ UNCHANGED << stop_event, reconnect_event, connected_event,
                    disconnected_event, connection_alive, connection_id, dc,
                    sdk, cbk, stopper, act >>
    /\ UNCHANGED notConnPub
RegisterConnection ==
    /\ register_connection
    /\ UNCHANGED pub
\* The same step, noting for the publisher that nothing was sent yet on the
\* connection that is now current.
RegisterSession ==
    /\ register_connection
    /\ pub' = [pub EXCEPT !.first = TRUE]

\* conductor.py 149, conductor_connection.py 80.
AttachDc ==
    /\ loop.pc = "attach"
    /\ dc' = attach(loop.conn)
    /\ loop' = [loop EXCEPT !.pc = "reset"]
    /\ UNCHANGED << stop_event, reconnect_event, connected_event,
                    disconnected_event, connection_alive, conn,
                    connection_id, sdk, cbk, stopper, act >>
    /\ UNCHANGED notConn

\* conductor.py 150-153, conductor_connection.py 81-84.
ResetEvents ==
    /\ loop.pc = "reset"
    /\ connection_id' = NoConn
    /\ connected_event' = FALSE
    /\ connection_alive' = FALSE
    /\ disconnected_event' = FALSE
    /\ loop' = [loop EXCEPT !.pc = "connect"]
    /\ UNCHANGED << stop_event, reconnect_event, conn, dc, sdk, cbk, stopper,
                    act >>
    /\ UNCHANGED notConn

\* conn.connect() (conductor.py 157, conductor_connection.py 88).  A
\* connection that was disconnected before connect() may or may not start.
Connect ==
    /\ loop.pc = "connect"
    /\ \/ /\ sdk[loop.conn] \in {"new", "unused"}
          /\ sdk' = [sdk EXCEPT ![loop.conn] = "connecting"]
       \/ /\ sdk[loop.conn] # "new"
          /\ UNCHANGED sdk
    /\ loop' = [loop EXCEPT !.pc = "wait_connected"]
    /\ UNCHANGED << stop_event, reconnect_event, connected_event,
                    disconnected_event, connection_alive, conn,
                    connection_id, dc, cbk, stopper, act >>
    /\ UNCHANGED notConn

\* connected_event.wait(timeout=10.0) returns True
\* (conductor.py 158, conductor_connection.py 89).
Connected ==
    /\ loop.pc = "wait_connected"
    /\ connected_event
    /\ loop' = [loop EXCEPT !.pc = "alive"]
    /\ UNCHANGED << stop_event, reconnect_event, connected_event,
                    disconnected_event, connection_alive, conn,
                    connection_id, dc, sdk, cbk, stopper, act >>
    /\ UNCHANGED notConn

\* The wait times out: disconnect, sleep, re-signal, continue
\* (conductor.py 158-163, conductor_connection.py 89-94).
ConnectTimeout ==
    /\ loop.pc = "wait_connected"
    /\ ~connected_event
    /\ sdk' = Disconnect(loop.conn)
    /\ reconnect_event' = TRUE
    /\ loop' = [loop EXCEPT !.pc = "finally"]
    /\ UNCHANGED << stop_event, connected_event, disconnected_event,
                    connection_alive, conn, connection_id, dc, cbk, stopper,
                    act >>
    /\ UNCHANGED notConn

\* conductor.py 165, conductor_connection.py 96.
SetAlive ==
    /\ loop.pc = "alive"
    /\ connection_alive' = TRUE
    /\ loop' = [loop EXCEPT !.pc = "wait_disconnected"]
    /\ UNCHANGED << stop_event, reconnect_event, connected_event,
                    disconnected_event, conn, connection_id, dc, sdk, cbk,
                    stopper, act >>
    /\ UNCHANGED notConn

\* What ends the wait of a connected loop.  Conductor._connection_loop
\* blocks in disconnected_event.wait() with no timeout (conductor.py 167).
ConductorWaitOver == disconnected_event

\* ConductorConnectionManager.run polls: `while not stop: if
\* disconnected_event.wait(timeout=0.5): break`
\* (conductor_connection.py 98-100).
ManagerWaitOver == stop_event \/ disconnected_event

\* The connected loop's wait ends.
WaitDisconnected ==
    /\ loop.pc = "wait_disconnected"
    /\ IF variant = "conductor" THEN ConductorWaitOver ELSE ManagerWaitOver
    /\ loop' = [loop EXCEPT !.pc = "finally"]
    /\ UNCHANGED << stop_event, reconnect_event, connected_event,
                    disconnected_event, connection_alive, conn,
                    connection_id, dc, sdk, cbk, stopper, act >>
    /\ UNCHANGED notConn

\* finally: take the current connection (conductor.py 176-178,
\* conductor_connection.py 109-111).
FinallyTake ==
    /\ loop.pc = "finally"
    /\ loop' = [pc |-> "fin_detach", conn |-> conn]
    /\ conn' = NoConn
    /\ UNCHANGED << stop_event, reconnect_event, connected_event,
                    disconnected_event, connection_alive, connection_id, dc,
                    sdk, cbk, stopper, act >>
    /\ UNCHANGED notConn

\* conductor.py 179, conductor_connection.py 112.
FinallyDetach ==
    /\ loop.pc = "fin_detach"
    /\ dc' = detach
    /\ loop' = [loop EXCEPT !.pc = "fin_disconnect"]
    /\ UNCHANGED << stop_event, reconnect_event, connected_event,
                    disconnected_event, connection_alive, conn,
                    connection_id, sdk, cbk, stopper, act >>
    /\ UNCHANGED notConn

\* The finally block without its conn.disconnect().
FinallyDisconnect_skipped ==
    /\ loop.pc = "fin_disconnect"
    /\ loop' = [loop EXCEPT !.pc = "fin_clear"]
    /\ UNCHANGED << stop_event, reconnect_event, connected_event,
                    disconnected_event, connection_alive, conn,
                    connection_id, dc, sdk, cbk, stopper, act >>
    /\ UNCHANGED notConn

\* conductor.py 180-184, conductor_connection.py 113-117.
FinallyDisconnect ==
    /\ loop.pc = "fin_disconnect"
    /\ sdk' = Disconnect(loop.conn)
    /\ loop' = [loop EXCEPT !.pc = "fin_clear"]
    /\ UNCHANGED << stop_event, reconnect_event, connected_event,
                    disconnected_event, connection_alive, conn,
                    connection_id, dc, cbk, stopper, act >>
    /\ UNCHANGED notConn

\* conductor.py 185, conductor_connection.py 118.
FinallyClearAlive ==
    /\ loop.pc = "fin_clear"
    /\ connection_alive' = FALSE
    /\ loop' = [loop EXCEPT !.pc = "fin_resignal"]
    /\ UNCHANGED << stop_event, reconnect_event, connected_event,
                    disconnected_event, conn, connection_id, dc, sdk, cbk,
                    stopper, act >>
    /\ UNCHANGED notConn

\* A finally that gives up without setting the reconnect signal.
Resignal_never == reconnect_event

\* The end of finally: unless stop was requested, sleep and set the
\* reconnect signal (conductor.py 186-188, conductor_connection.py 119-121).
Resignal == IF stop_event THEN reconnect_event ELSE TRUE

\* conductor.py 186-188, conductor_connection.py 119-121; then back to
\* the loop condition.
FinallyResignal ==
    /\ loop.pc = "fin_resignal"
    /\ reconnect_event' = Resignal
    /\ loop' = [pc |-> "top", conn |-> NoConn]
    /\ UNCHANGED << stop_event, connected_event, disconnected_event,
                    connection_alive, conn, connection_id, dc, sdk, cbk,
                    stopper, act >>
    /\ UNCHANGED notConn

\* stop_event.set(): the first statement of Conductor.stop()
\* (conductor.py 91); the owner of a ConductorConnectionManager sets the
\* same event before it calls shutdown().
StopSet ==
    /\ stopper.pc = "idle"
    /\ stop_event' = TRUE
    /\ stopper' = [stopper EXCEPT !.pc = IF variant = "conductor" THEN "clear_alive"
                                        ELSE "shutdown"]
    /\ UNCHANGED << reconnect_event, connected_event, disconnected_event,
                    connection_alive, conn, connection_id, dc, sdk, cbk,
                    loop, act >>
    /\ UNCHANGED notConn

\* conductor.py 92.
StopClearAlive ==
    /\ stopper.pc = "clear_alive"
    /\ connection_alive' = FALSE
    /\ stopper' = [stopper EXCEPT !.pc = "set_reconnect"]
    /\ UNCHANGED << stop_event, reconnect_event, connected_event,
                    disconnected_event, conn, connection_id, dc, sdk, cbk,
                    loop, act >>
    /\ UNCHANGED notConn

\* conductor.py 93.
StopSetReconnect ==
    /\ stopper.pc = "set_reconnect"
    /\ reconnect_event' = TRUE
    /\ stopper' = [stopper EXCEPT !.pc = "set_disconnected"]
    /\ UNCHANGED << stop_event, connected_event, disconnected_event,
                    connection_alive, conn, connection_id, dc, sdk, cbk,
                    loop, act >>
    /\ UNCHANGED notConn

\* conductor.py 94.
StopSetDisconnected ==
    /\ stopper.pc = "set_disconnected"
    /\ disconnected_event' = TRUE
    /\ stopper' = [stopper EXCEPT !.pc = "take"]
    /\ UNCHANGED << stop_event, reconnect_event, connected_event,
                    connection_alive, conn, connection_id, dc, sdk, cbk,
                    loop, act >>
    /\ UNCHANGED notConn

\* conductor.py 95-97.
StopTake ==
    /\ stopper.pc = "take"
    /\ stopper' = [pc |-> "disconnect", conn |-> conn]
    /\ conn' = NoConn
    /\ UNCHANGED << stop_event, reconnect_event, connected_event,
                    disconnected_event, connection_alive, connection_id, dc,
                    sdk, cbk, loop, act >>
    /\ UNCHANGED notConn

\* conductor.py 98-102.
StopDisconnect ==
    /\ stopper.pc = "disconnect"
    /\ sdk' = Disconnect(stopper.conn)
    /\ stopper' = [pc |-> "detach", conn |-> NoConn]
    /\ UNCHANGED << stop_event, reconnect_event, connected_event,
                    disconnected_event, connection_alive, conn,
                    connection_id, dc, cbk, loop, act >>
    /\ UNCHANGED notConn

\* conductor.py 103-105: detach the data channels, then join every thread
\* for at most a second each.
StopDetach ==
    /\ stopper.pc = "detach"
    /\ dc' = detach
    /\ stopper' = [stopper EXCEPT !.pc = "done"]
    /\ UNCHANGED << stop_event, reconnect_event, connected_event,
                    disconnected_event, connection_alive, conn,
                    connection_id, sdk, cbk, loop, act >>
    /\ UNCHANGED notConn

\* ConductorConnectionManager.shutdown (conductor_connection.py 124-125).
ShutdownSignal ==
    /\ stopper.pc = "shutdown"
    /\ disconnected_event' = TRUE
    /\ reconnect_event' = TRUE
    /\ stopper' = [stopper EXCEPT !.pc = "shutdown_take"]
    /\ UNCHANGED << stop_event, connected_event, connection_alive, conn,
                    connection_id, dc, sdk, cbk, loop, act >>
    /\ UNCHANGED notConn

\* conductor_connection.py 126-127: the connection stays current.
ShutdownTake ==
    /\ stopper.pc = "shutdown_take"
    /\ stopper' = [pc |-> "shutdown_disconnect", conn |-> conn]
    /\ UNCHANGED << stop_event, reconnect_event, connected_event,
                    disconnected_event, connection_alive, conn,
                    connection_id, dc, sdk, cbk, loop, act >>
    /\ UNCHANGED notConn

\* conductor_connection.py 128-132.
ShutdownDisconnect ==
    /\ stopper.pc = "shutdown_disconnect"
    /\ sdk' = Disconnect(stopper.conn)
    /\ stopper' = [pc |-> "done", conn |-> NoConn]
    /\ UNCHANGED << stop_event, reconnect_event, connected_event,
                    disconnected_event, connection_alive, conn,
                    connection_id, dc, cbk, loop, act >>
    /\ UNCHANGED notConn

\* The physics, state, heartbeat or stats loop finds the stop signal set at
\* its loop condition and returns (loops.py 44, 81, 110, 130;
\* conductor.py 328, 347, 359, 371).  Every iteration sleeps a bounded time,
\* so the condition is evaluated again and again.  The four loops differ in
\* nothing the connection sees, so they are taken to leave in the order of
\* their start: any other order reaches the same states of the rest.
ActivityExit(a) ==
    /\ act[a] = "run"
    /\ stop_event
    /\ \A i, j \in 1..Len(ActivityOrder) :
          (i < j /\ ActivityOrder[j] = a) => act[ActivityOrder[i]] = "done"
    /\ act' = [act EXCEPT ![a] = "done"]
    /\ UNCHANGED << stop_event, reconnect_event, connected_event,
                    disconnected_event, connection_alive, conn,
                    connection_id, dc, sdk, cbk, loop, stopper >>
    /\ UNCHANGED notConn

\* ---- publishing: StateLoop.run (loops.py 80-90), Conductor._state_loop
\* (conductor.py 345-356), send_data (conductor_connection.py 134-148) and
\* Conductor._send_state (conductor.py 445-462).

\* A payload was built and not yet handed to the transport.
Pending == ~IsNone(last_payload) /\ Val(last_payload).seq # pub.tried

\* The state loop's iteration without the test of loops.py 83 /
\* conductor.py 350.
StateLoopBuild_unchecked ==
    /\ act["state"] = "run"
    /\ ~stop_event
    /\ pub.pc = "idle"
    /\ ~Pending
    /\ BuildSnapshot

\* One iteration of the state loop begins a build: the stop signal is not
\* set, the session is alive and the state label is ready
\* (loops.py 81-84, conductor.py 347-350).
StateLoopBuild ==
    /\ act["state"] = "run"
    /\ ~stop_event
    /\ connection_alive
    /\ is_ready(state_label)
    /\ pub.pc = "idle"
    /\ ~Pending
    /\ BuildSnapshot

\* What the call returns: send_data returns a bool
\* (conductor_connection.py 138, 141, 148), Conductor._send_state has no
\* return value (conductor.py 445-462).
send_result_true(accepted) ==
    IF variant = "conductor" THEN "none" ELSE "true"
send_result(accepted) ==
    IF variant = "conductor" THEN "none"
    ELSE IF accepted THEN "true" ELSE "false"

\* The head of send_data / _send_state: read the current connection under
\* the lock and return False if there is none
\* (conductor_connection.py 135-138, conductor.py 449-452).
SendTake ==
    /\ pub.pc = "idle"
    /\ sb.pc = "idle"
    /\ Pending
    /\ pub' = IF conn = NoConn
              THEN [pub EXCEPT !.tried = Val(last_payload).seq,
                               !.ret = send_result(FALSE),
                               !.logged = FALSE]
              ELSE [pub EXCEPT !.pc = "send", !.conn = conn]
    /\ UNCHANGED notPub

\* conn.send_data_channel(label, data) inside try/except Exception
\* (conductor_connection.py 139-148, conductor.py 453-462).  The transport
\* takes the frame only on an open connection and may refuse it there too;
\* a refusal is an exception, logged at DEBUG ("send failed just before
\* disconnect").
SendDataChannel ==
    /\ pub.pc = "send"
    /\ \E accepted \in (IF sdk[pub.conn] = "open" THEN BOOLEAN ELSE {FALSE}) :
          pub' = IF accepted
                 THEN [pc |-> "idle", conn |-> NoConn,
                       tried |-> Val(last_payload).seq,
                       ret |-> send_result(TRUE), logged |-> FALSE,
                       first |-> FALSE,
                       sent |-> Some(Val(last_payload).seq)]
                 ELSE [pub EXCEPT !.pc = "idle", !.conn = NoConn,
                                  !.tried = Val(last_payload).seq,
                                  !.ret = send_result(FALSE),
                                  !.logged = TRUE]
    /\ UNCHANGED notPub

StoreDefaultInit ==
    /\ StoreInit /\ variant = "conductor" /\ frames_left = MaxFrames
    /\ VehicleVarsInit /\ BuildInit /\ ConnInit

InitConv ==
    ConvInit /\ BridgeInit /\ command_timeout_sec = 2 /\ StoreDefaultInit
InitBridge == ConvDefaultInit /\ BridgeInit /\ StoreDefaultInit
InitStore ==
    /\ ConvDefaultInit /\ BridgeInit /\ command_timeout_sec = 2
    /\ StoreInit /\ VehicleVarsInit /\ BuildInit /\ ConnInit
    /\ frames_left = MaxFrames
InitMgr ==
    /\ ConvDefaultInit /\ BridgeInit /\ command_timeout_sec = 2
    /\ StoreInit /\ VehicleVarsInit /\ BuildInit /\ ConnInit
    /\ frames_left = MaxMgrFrames
InitState ==
    /\ ConvDefaultInit /\ BridgeInit /\ command_timeout_sec = 2
    /\ StoreInit /\ VehicleVarsInit /\ BuildInit /\ ConnInit
    /\ frames_left = MaxStateFrames
InitConn == InitState
\* A store that has followed one sender up to the last seq below 2^31.
InitWrap ==
    /\ ConvDefaultInit /\ BridgeInit /\ command_timeout_sec = 2
    /\ variant \in {"conductor", "components"}
    /\ mgr_now = 1
    /\ last_ctrl = Some(Snapshot(StateSeqLast, << One \div 2, 0, 0 >>, 1, None))
    /\ last_ctrl_latency_ms = None
    /\ last_ctrl_recv_wall = Some(Wall)
    /\ last_hb_from_ui = None
    /\ estop_triggered = FALSE
    /\ ctrl_recv_count = 1
    /\ ctrl_drop_count = 0
    /\ cb = [k \in CbThreads |-> CbIdle]
    /\ frames_left = MaxFrames
    /\ VehicleVarsInit /\ BuildInit /\ ConnInit
\* A store holding one accepted ctrl frame, received now, that nothing
\* follows.
CoastTriples ==
    { << One \div 2, 0, 0 >>, << One, 0, 0 >>, << -One, One, 0 >> }
InitCoast ==
    /\ ConvDefaultInit /\ BridgeInit /\ command_timeout_sec = 2
    /\ variant \in {"conductor", "components"}
    /\ mgr_now = 1
    /\ \E triple \in CoastTriples :
          last_ctrl = Some(Snapshot(1, triple, 1, None))
    /\ last_ctrl_latency_ms = None
    /\ last_ctrl_recv_wall = Some(Wall)
    /\ last_hb_from_ui = None
    /\ estop_triggered = FALSE
    /\ ctrl_recv_count = 1
    /\ ctrl_drop_count = 0
    /\ cb = [k \in CbThreads |-> CbIdle]
    /\ frames_left = 0
    /\ VehicleVarsInit /\ BuildInit /\ ConnInit
InitFloat == InitMgr /\ variant = "conductor"
InitSeq ==
    /\ ConvDefaultInit /\ BridgeInit /\ command_timeout_sec = 2
    /\ StoreInit /\ VehicleVarsInit /\ BuildWrapInit /\ ConnInit
    /\ frames_left = MaxStateFrames
InitStop == InitConn /\ variant = "conductor"

NextConv == CallToVelocity

NextCoast ==
    \/ PhysicsRead
    \/ PhysicsStep
    \/ PhysicsSleep

NextFloat ==
    \/ FloatStep
    \/ FloatEstop

NextLock ==
    \/ LockStart
    \/ \E t \in LockThreads : ConnLockEnter(t)
    \/ \E t \in LockThreads : TakeConn(t)
    \/ \E t \in LockThreads : Detach(t)
    \/ \E t \in LockThreads : DetachReturn(t)
    \/ \E t \in LockThreads : DisconnectCall(t)
    \/ \E t \in LockThreads : ManagerDisconnectCall(t)
    \/ \E t \in LockThreads : DisconnectReturn(t)
    \/ CallbackLeave
    \/ LoopRegister

\* The Bridge's two transports receiving frames.
NextSignal ==
    \/ SignalReset
    \/ SignalOffer
    \/ SignalNotify
    \/ SignalConnected

NextHeld ==
    \/ HeldFresh
    \/ HeldAge

NextPublisher ==
    \/ PublisherStart
    \/ PublisherPublish
    \/ \E t \in StopCallers : PublisherStopLocked(t)
    \/ \E t \in StopCallers : PublisherStopTeardown(t)

NextTransport ==
    \/ \E x \in Transports : TransportOnCtrl(x)
    \/ \E x \in Transports : TransportMessage(x)
    \/ \E x \in Transports : TransportClose(x)

\* Frames through the message handler, one at a time, as time passes.
NextRx ==
    \/ OnMessageFrame
    \/ MgrTick

NextBridge ==
    \/ ProcessBegin
    \/ ProcessPublish
    \/ ProcessStamp
    \/ WatchdogWake
    \/ WatchdogCheck
    \/ WatchdogZero
    \/ WatchdogReset
    \/ SubscriberClose
    \/ BridgeTick

NextStore ==
    \/ \E k \in CbThreads : ConductorParseCtrl(k, Frames)
    \/ \E k \in CbThreads : ConductorStoreCtrl(k)
    \/ \E k \in CbThreads : HandlerHandleCtrl(k, Frames)
    \/ \E k \in CbThreads : UpdateIfNew(k)
    \/ \E k \in CbThreads : IgnoreFrame(k, Frames)
    \/ \E k \in CbThreads : HandleHeartbeat(k, Frames)
    \/ MgrTick

NextMgr ==
    \/ ConductorParseCtrl(1, MgrFrames)
    \/ ConductorStoreCtrl(1)
    \/ HandlerHandleCtrl(1, MgrFrames)
    \/ UpdateIfNew(1)
    \/ IgnoreFrame(1, MgrFrames)
    \/ HandleHeartbeat(1, MgrFrames)
    \/ HandleEstopVehicle(1, MgrFrames)
    \/ HandleEstopLatch(1)
    \/ TriggerEstopVehicle
    \/ TriggerEstopLatch
    \/ PhysicsRead
    \/ PhysicsStep
    \/ MgrTick
    \/ MgrJump

NextState ==
    \/ ConductorParseCtrl(1, MgrFrames)
    \/ ConductorStoreCtrl(1)
    \/ UpdateIfNew(1)
    \/ HandleHeartbeat(1, MgrFrames)
    \/ HandleEstopVehicle(1, MgrFrames)
    \/ HandleEstopLatch(1)
    \/ TriggerEstopVehicle
    \/ TriggerEstopLatch
    \/ PhysicsRead
    \/ PhysicsStep
    \/ BuildSnapshot
    \/ ConductorCompose
    \/ BuilderCompose
    \/ MgrTick
    \/ MgrJump

LoopThread ==
    \/ LoopTop
    \/ WaitReconnect
    \/ ClearReconnect
    \/ CreateConnection
    \/ RegisterConnection
    \/ AttachDc
    \/ ResetEvents
    \/ Connect
    \/ Connected
    \/ ConnectTimeout
    \/ SetAlive
    \/ WaitDisconnected
    \/ FinallyTake
    \/ FinallyDetach
    \/ FinallyDisconnect
    \/ FinallyClearAlive
    \/ FinallyResignal

StopThread ==
    \/ StopClearAlive
    \/ StopSetReconnect
    \/ StopSetDisconnected
    \/ StopTake
    \/ StopDisconnect
    \/ StopDetach
    \/ ShutdownSignal
    \/ ShutdownTake
    \/ ShutdownDisconnect

CallbackEffects ==
    \/ OnSetOffer
    \/ OnNotify
    \/ OnDataChannel
    \/ OnDisconnect

NextConn ==
    \/ LoopTop
    \/ WaitReconnect
    \/ ClearReconnect
    \/ CreateConnection
    \/ LoopException
    \/ RegisterConnection
    \/ AttachDc
    \/ ResetEvents
    \/ Connect
    \/ Connected
    \/ ConnectTimeout
    \/ SetAlive
    \/ WaitDisconnected
    \/ FinallyTake
    \/ FinallyDetach
    \/ FinallyDisconnect
    \/ FinallyClearAlive
    \/ FinallyResignal
    \/ StopSet
    \/ StopClearAlive
    \/ StopSetReconnect
    \/ StopSetDisconnected
    \/ StopTake
    \/ StopDisconnect
    \/ StopDetach
    \/ ShutdownSignal
    \/ ShutdownTake
    \/ ShutdownDisconnect
    \/ SdkOffer
    \/ SdkNotify
    \/ SdkDataChannel
    \/ SdkClose
    \/ SdkDisconnect
    \/ OnSetOffer
    \/ OnNotify
    \/ OnDataChannel
    \/ OnDisconnect

\* The connection loop and the transport with the state thread publishing;
\* stop() is not called.
NextSession ==
    \/ LoopTop
    \/ WaitReconnect
    \/ ClearReconnect
    \/ CreateConnection
    \/ LoopException
    \/ RegisterSession
    \/ AttachDc
    \/ ResetEvents
    \/ Connect
    \/ Connected
    \/ ConnectTimeout
    \/ SetAlive
    \/ WaitDisconnected
    \/ FinallyTake
    \/ FinallyDetach
    \/ FinallyDisconnect
    \/ FinallyClearAlive
    \/ FinallyResignal
    \/ SdkOffer
    \/ SdkNotify
    \/ SdkDataChannel
    \/ SdkClose
    \/ SdkDisconnect
    \/ OnSetOffer
    \/ OnNotify
    \/ OnDataChannel
    \/ OnDisconnect
    \/ StateLoopBuild
    \/ ConductorCompose
    \/ BuilderCompose
    \/ SendTake
    \/ SendDataChannel
    \/ MgrTick
    \/ MgrJump

\* The state thread of RaspberryPiStatePublisher.
FlushThread ==
    \/ FlushLoopTop
    \/ FlushReady
    \/ FlushConsume
    \/ FlushSource
    \/ FlushNormalise
    \/ FlushSend
    \/ FlushSleep

NextFlush ==
    \/ SetStateSource
    \/ FlushStart
    \/ PublishState
    \/ FlushStop
    \/ FlushThread

\* The connection loop and the transport with ctrl frames arriving in the
\* sessions; stop() is not called, and the readiness of the data channels,
\* which _on_message does not look at, is left out.
NextReconnect ==
    \/ LoopTop
    \/ WaitReconnect
    \/ ClearReconnect
    \/ CreateConnection
    \/ LoopException
    \/ RegisterConnection
    \/ AttachDc
    \/ ResetEvents
    \/ Connect
    \/ Connected
    \/ ConnectTimeout
    \/ SetAlive
    \/ WaitDisconnected
    \/ FinallyTake
    \/ FinallyDetach
    \/ FinallyDisconnect
    \/ FinallyClearAlive
    \/ FinallyResignal
    \/ SdkOffer
    \/ SdkNotify
    \/ SdkClose
    \/ SdkDisconnect
    \/ OnSetOffer
    \/ OnNotify
    \/ OnDisconnect
    \/ SessionDeliver
    \/ SessionCtrl
    \/ ConductorStoreCtrl(1)
    \/ SessionOver

NextHeartbeat ==
    \/ NextSession
    \/ HeartbeatLoopRun
    \/ HeartbeatSendDataChannel

\* The connection lifecycle with inbound messages delivered.
NextStale ==
    \/ LoopTop
    \/ WaitReconnect
    \/ ClearReconnect
    \/ CreateConnection
    \/ LoopException
    \/ RegisterConnection
    \/ AttachDc
    \/ ResetEvents
    \/ Connect
    \/ Connected
    \/ ConnectTimeout
    \/ SetAlive
    \/ WaitDisconnected
    \/ FinallyTake
    \/ FinallyDetach
    \/ FinallyDisconnect
    \/ FinallyClearAlive
    \/ FinallyResignal
    \/ StopSet
    \/ StopClearAlive
    \/ StopSetReconnect
    \/ StopSetDisconnected
    \/ StopTake
    \/ StopDisconnect
    \/ StopDetach
    \/ ShutdownSignal
    \/ ShutdownTake
    \/ ShutdownDisconnect
    \/ SdkOffer
    \/ SdkNotify
    \/ SdkDataChannel
    \/ SdkClose
    \/ SdkDisconnect
    \/ OnSetOffer
    \/ OnNotify
    \/ OnDataChannel
    \/ OnDisconnect
    \/ SdkMessage
    \/ OnMessage

\* Conductor (services/conductor.py) alone, with its five threads.
NextStop ==
    \/ LoopTop
    \/ WaitReconnect
    \/ ClearReconnect
    \/ CreateConnection
    \/ LoopException
    \/ RegisterConnection
    \/ AttachDc
    \/ ResetEvents
    \/ Connect
    \/ Connected
    \/ ConnectTimeout
    \/ SetAlive
    \/ WaitDisconnected
    \/ FinallyTake
    \/ FinallyDetach
    \/ FinallyDisconnect
    \/ FinallyClearAlive
    \/ FinallyResignal
    \/ StopSet
    \/ StopClearAlive
    \/ StopSetReconnect
    \/ StopSetDisconnected
    \/ StopTake
    \/ StopDisconnect
    \/ StopDetach
    \/ SdkOffer
    \/ SdkNotify
    \/ SdkDataChannel
    \/ SdkClose
    \/ SdkDisconnect
    \/ OnSetOffer
    \/ OnNotify
    \/ OnDataChannel
    \/ OnDisconnect
    \/ \E a \in Activities : ActivityExit(a)

\* Direct calls of the Bridge converter.
SpecConv == InitConv /\ [][NextConv]_vars
\* The Bridge command subscriber: callback thread and watchdog thread.
SpecBridge == InitBridge /\ [][NextBridge]_vars
\* The Manager's control store under concurrent transport callbacks.
SpecStore == InitStore /\ [][NextStore]_vars
\* Calls of VehicleModel.step and estop(), in floating point.
SpecFloat == InitFloat /\ [][NextFloat]_vars
\* The Manager's vehicle, physics loop and E-Stop, one callback at a time.
SpecMgr == InitMgr /\ [][NextMgr]_vars
\* The Manager's state payload builds beside the physics loop, E-Stop and
\* inbound frames.
SpecState == InitState /\ [][NextState]_vars
SpecSeq == InitSeq /\ [][NextState]_vars
\* The connection loop, stop() and the transport's callbacks, with every
\* thread of the Manager making progress: a thread that can take its next
\* step takes it.  The transport owes nothing: it may never deliver an
\* event, and stop() may never be called.
SpecConnFair ==
    /\ InitConn
    /\ [][NextConn]_vars
    /\ WF_vars(LoopThread)
    /\ WF_vars(StopThread)
    /\ WF_vars(CallbackEffects)
\* The connection loop, stop(), and every transport callback including
\* on_message.
SpecStale == InitConn /\ [][NextStale]_vars
\* The control store when the sender's seq has passed 2^31 - 1 and starts
\* again from the bottom.
SpecWrap == InitWrap /\ [][NextStore]_vars
\* The Bridge's control transports, WebRTC and MQTT.
\* The connection loop with the state and heartbeat threads sending on it.
SpecHeartbeat == InitConn /\ [][NextHeartbeat]_vars
\* The offer and notify handlers given every message.
SpecSignal == InitBridge /\ [][NextSignal]_vars
\* The state publisher with its state thread scheduled again and again.
SpecFlushFair ==
    /\ InitBridge
    /\ [][NextFlush]_vars
    /\ WF_vars(FlushThread)
\* Sessions that come and go while a UI sends ctrl frames.
SpecReconnect == InitMgr /\ [][NextReconnect]_vars
\* stop(), the loop's finally block and a callback around the connection
\* mutex, in each implementation.
SpecLock == InitBridge /\ [][NextLock]_vars
\* The physics loop at 60 Hz while the last ctrl frame ages.
SpecCoast == InitCoast /\ [][NextCoast]_vars
SpecHeld == InitBridge /\ [][NextHeld]_vars
SpecPublisher == InitBridge /\ [][NextPublisher]_vars
SpecTransport == InitBridge /\ [][NextTransport]_vars
\* The message handler given every kind of frame.
SpecRx == InitStore /\ [][NextRx]_vars
\* The connection loop with the state thread publishing on it.
SpecSession == InitConn /\ [][NextSession]_vars

\* Conductor with its five threads, under the same fairness.
SpecStopFair ==
    /\ InitStop
    /\ [][NextStop]_vars
    /\ WF_vars(LoopThread)
    /\ WF_vars(StopThread)
    /\ WF_vars(CallbackEffects)
    /\ \A a \in Activities : WF_vars(ActivityExit(a))

\* ========================================================================
\*                              CLAIMS
\* ========================================================================

\* C1.  Whenever the control store's snapshot is replaced, the new
\* snapshot's seq is strictly greater than the seq of the snapshot it
\* replaces; this holds for every interleaving of the callback slots, in the
\* Conductor and in ControlState alike.  (SpecStore)
C1_SeqStrictlyIncreases ==
    [][ ((last_ctrl' # last_ctrl \/ ctrl_recv_count' # ctrl_recv_count)
             /\ ~IsNone(last_ctrl))
        => (~IsNone(last_ctrl') /\ Val(last_ctrl').seq > Val(last_ctrl).seq)
      ]_vars

\* Two snapshots were stored one after the other while a second callback,
\* still waiting for the lock, holds a snapshot that is now stale.
C1_Witness ==
    /\ ctrl_recv_count >= 2
    /\ ~IsNone(last_ctrl)
    /\ cb[2].pc = "store"
    /\ cb[2].snap.seq <= Val(last_ctrl).seq

\* C2.  While the vehicle's E-Stop is active, vx and wz are zero after every
\* step (and after estop() itself), whatever control snapshot the step is
\* given.  (SpecMgr)
C2_EstopHoldsVehicleStill ==
    vehicle._estop_active => (vehicle.vx = 0 /\ vehicle.wz = 0)

\* C3.  The Manager's E-Stop is latched: once the vehicle's flag or the
\* latch is set, no ctrl frame, heartbeat, physics step or passage of time
\* clears it, and a set latch always comes with the vehicle's flag set.
\* (SpecMgr)
C3_EstopLatched ==
    [][ /\ vehicle._estop_active => vehicle'._estop_active
        /\ estop_triggered => estop_triggered'
        /\ estop_triggered' => vehicle'._estop_active ]_vars

\* E-Stop is latched, a heartbeat has arrived, and the physics loop has
\* since stepped the vehicle with a snapshot that steers (estop() had zeroed
\* wz).
C3_Witness ==
    /\ estop_triggered
    /\ vehicle._estop_active
    /\ ~IsNone(last_hb_from_ui)
    /\ vehicle.wz # 0

\* C4.  Every state payload whose build began after the vehicle's E-Stop
\* was engaged carries status.estop = true, also when it is built between
\* the vehicle-level engagement and the setting of the latch.  (SpecState)
C4_PayloadsReportEstop ==
    (~IsNone(last_payload) /\ Val(last_payload).engaged_before)
        => Val(last_payload).status.estop

\* C5.  On the Bridge, under every interleaving of the watchdog thread with
\* process_ctrl_payload, whenever the watchdog is disarmed
\* (last_publish_wall = 0) and no payload is being processed, the velocity
\* last handed to the sink is (0,0) (command_timeout_sec > 0).
C5_DisarmedMeansZero ==
    (command_timeout_sec > 0 /\ last_publish_wall = 0 /\ cb_pc = "idle")
        => sink_last = << 0, 0 >>

\* C6.  After the last processed payload (command_timeout_sec > 0, Bridge at
\* rest: callback idle, watchdog between ticks) the watchdog has published
\* zero exactly once by the time it is disarmed, not at all while it is
\* still armed, and not at all before any payload was ever processed.
C6_ZeroExactlyOnce ==
    (command_timeout_sec > 0 /\ cb_pc = "idle" /\ wd_pc = "wait") =>
        /\ ~ever_processed => (wd_zeros = 0 /\ last_publish_wall = 0)
        /\ (ever_processed /\ last_publish_wall = 0) => wd_zeros = 1
        /\ last_publish_wall > 0 => wd_zeros = 0

\* C7 as claimed.  Whatever the command argument, a brake argument at or
\* above brake_threshold, or estop_active, makes to_velocity return (0,0).
C7_BrakeArgumentGate ==
    (~IsNone(conv_result)
     /\ (conv_args.estop_active
         \/ (IF IsNone(conv_args.brake) THEN 0 ELSE Val(conv_args.brake))
                >= brake_threshold))
        => Val(conv_result) = << 0, 0 >>

\* C7 as amended.  to_velocity returns (0,0) when estop_active holds or the
\* effective brake is at or above brake_threshold, the effective brake being
\* the preset's brake for a recognised command and the brake argument
\* (absent = 0) otherwise.
C7_EffectiveBrakeGate ==
    (~IsNone(conv_result)
     /\ (conv_args.estop_active
         \/ EffectiveTriple(conv_args.command, conv_args.throttle,
                            conv_args.steer, conv_args.brake)[3]
                >= brake_threshold))
        => Val(conv_result) = << 0, 0 >>

\* An unrecognised command with full throttle and the brake argument exactly
\* at the threshold, no estop: the call has returned (0,0).
C7_Witness ==
    /\ conv_args.command = Some("JUMP")
    /\ conv_args.throttle = Some(One)
    /\ conv_args.brake = Some(brake_threshold)
    /\ ~conv_args.estop_active
    /\ conv_result = Some(<< 0, 0 >>)

\* C8.  While stop is not requested, an ended connection attempt -- the
\* connect timeout, an exception in the loop, or the disconnect signal
\* reaching the connected loop -- leads to the session torn down (no current
\* connection, connection_alive clear, data channels detached) with the
\* reconnect signal set, and the loop then starts a new attempt: it never
\* stays waiting for the reconnect signal.  (SpecConnFair)
AttemptEnded ==
    \/ loop.pc = "finally"
    \/ loop.pc = "wait_disconnected" /\ disconnected_event
TornDownAndResignalled ==
    /\ loop.pc = "top"
    /\ reconnect_event
    /\ conn = NoConn
    /\ ~connection_alive
    /\ dc.conn = NoConn
C8_ReconnectAfterEndedAttempt ==
    /\ (AttemptEnded /\ ~stop_event) ~> (stop_event \/ TornDownAndResignalled)
    /\ (loop.pc \in {"top", "wait"} /\ ~stop_event)
           ~> (stop_event \/ loop.pc = "create")

\* A new attempt begins while the transport still holds the remains of an
\* earlier connection, and stop was not requested.
C8_Witness ==
    /\ loop.pc = "create"
    /\ ~stop_event
    /\ \E c \in Conns : sdk[c] = "closing"

\* C9.  Once the stop signal is set, the connection loop and the physics,
\* state, heartbeat and stats loops all eventually leave their loop.
\* (SpecStopFair)
C9_StopEndsEveryLoop ==
    stop_event ~> (loop.pc = "done" /\ \A a \in Activities : act[a] = "done")

\* C10.  After stop is requested, eventually and from then on for ever:
\* connection_alive is clear, no connection is current and both data-channel
\* labels are unready.  (SpecConnFair)
C10_StopLeavesNothingConnected ==
    stop_event ~> [](/\ ~connection_alive
                     /\ conn = NoConn
                     /\ dc.ready = NoneReady)

\* ------------------------------------------------------------------------
\* C11.  A callback whose connection is no longer the current one when its
\* effect runs changes no session state: it leaves connection_alive, the
\* connected and disconnected signals and connection_id as they are and
\* delivers no message.
StaleEffect == cbk.kind # "none" /\ cbk.c # conn /\ cbk' = NoCallback
C11_StaleCallbacksChangeNothing ==
    [][ StaleEffect =>
          UNCHANGED << connection_alive, connected_event,
                       disconnected_event, connection_id,
                       last_hb_from_ui >> ]_vars

\* ------------------------------------------------------------------------
\* C12.  ControlState.update_if_new with a snapshot whose seq is at most the
\* stored snapshot's seq returns false (counted as a drop) and leaves the
\* stored snapshot, latency and receive wall time unchanged; with an empty
\* store or a greater seq it returns true (counted as received) and
\* replaces all three with its arguments.  (SpecStore)
UpdateIfNewContract(c) ==
    IF ~IsNone(last_ctrl) /\ c.snap.seq <= Val(last_ctrl).seq
    THEN /\ ctrl_drop_count' = ctrl_drop_count + 1
         /\ ctrl_recv_count' = ctrl_recv_count
         /\ last_ctrl' = last_ctrl
         /\ last_ctrl_latency_ms' = last_ctrl_latency_ms
         /\ last_ctrl_recv_wall' = last_ctrl_recv_wall
    ELSE /\ ctrl_recv_count' = ctrl_recv_count + 1
         /\ ctrl_drop_count' = ctrl_drop_count
         /\ last_ctrl' = Some(c.snap)
         /\ last_ctrl_latency_ms' = c.latency_ms
         /\ last_ctrl_recv_wall' = Some(Wall)
C12_UpdateIfNewContract ==
    [][ \A k \in CbThreads, c \in StoreCalls :
          (variant = "components" /\ CanStart(k) /\ update_if_new(k, c))
              => UpdateIfNewContract(c) ]_vars

\* A replay was rejected after a greater seq had been accepted, and the
\* store still holds what the accepted call gave it.
C12_Witness ==
    /\ variant = "components"
    /\ ctrl_drop_count >= 1
    /\ ctrl_recv_count >= 2
    /\ ~IsNone(last_ctrl)
    /\ Val(last_ctrl).seq >= 2
    /\ last_ctrl_latency_ms = None

\* ------------------------------------------------------------------------
\* C13.  After any step, from any reachable vehicle state, for any control
\* with throttle and steer in [-1, 1], brake in [0, 1] and any dt > 0:
\* |vx| <= MAX_SPEED and |wz| <= YAW_RATE_MAX.  (SpecFloat)
C13_StepKeepsBounds ==
    /\ Abs(fv.vx) <= MAX_SPEED * FOne
    /\ 2 * Abs(fv.wz) <= YAW_RATE_MAX_x2 * FOne

\* ------------------------------------------------------------------------
\* C14.  StatePayloadBuilder.build coalesces idle ticks: a build that sees
\* the vehicle's ctrl_age beyond IDLE_STATE_INTERVAL_SEC (or no control at
\* all) emits a payload only when at least that interval of wall time has
\* passed since the previously emitted payload, and a build that sees
\* ctrl_age within the interval always emits a payload.  (SpecState)
BuildIsIdle == IsNone(sb.ctrl_age) \/ Val(sb.ctrl_age) > IDLE_STATE_INTERVAL_SEC
BuildEmits == ~IsNone(last_payload') /\ last_payload' # last_payload
C14_IdleCoalescing ==
    [][ BuilderCompose =>
          /\ (BuildIsIdle /\ BuildEmits /\ ~IsNone(last_payload))
                => Wall - Val(last_payload).t >= IDLE_STATE_INTERVAL_SEC
          /\ ~BuildIsIdle => BuildEmits ]_vars

\* C15: the payloads a builder emits carry non-decreasing send times and
\* consecutive sequence numbers modulo 2^31 (after 2^31 - 1 comes 0), and a
\* build that returns nothing because it is idle-coalesced leaves the
\* sequence counter where it was.
SeqAfter(s) == IF s = StateSeqLast THEN 0 ELSE s + 1
C16_FreshSessionStartsAtOne ==
    [][ (SendDataChannel /\ pub'.sent # pub.sent /\ pub.first
            /\ ~IsNone(pub.sent))
          => Val(last_payload).seq = 1 ]_vars

\* C17: a send ends without an exception, with False when no connection is
\* current or the transport refuses the frame (as it does on a connection
\* torn down after the reference was read) and with True only when the
\* transport took the frame; a send that fails leaves the session, the
\* channels, the builder and the record of what was sent as they were.
SendEnds == (SendTake \/ SendDataChannel) /\ pub'.pc = "idle"
Accepted == pub'.sent # pub.sent
C18_MalformedFramesAreDropped ==
    [][ (OnMessageFrame /\ rx'.raw.kind \in {"not_utf8", "not_json",
                                              "not_object"})
          => /\ rx'.outcome = "returned"
             /\ UNCHANGED << last_ctrl, last_ctrl_latency_ms,
                             last_ctrl_recv_wall, last_hb_from_ui,
                             estop_triggered, vehicle, ctrl_recv_count,
                             ctrl_drop_count >> ]_vars

\* C19: a ctrl frame on the ctrl label without an integer seq, or with a
\* command string that is not a preset, is dropped: the handler returns, the
\* control store is as before, and a frame with the same seq and a valid
\* command that comes next is accepted.
BadCtrl(f) ==
    /\ Dispatch(f) = "ctrl"
    /\ ~IsInt(f.seq) \/ (IsStr(f.command) /\ ~KnownCommand(f))
GoodCtrl(f) ==
    /\ Dispatch(f) = "ctrl"
    /\ IsInt(f.seq)
    /\ IsStr(f.command) => KnownCommand(f)
C19_BadCtrlIsDropped ==
    [][ (OnMessageFrame /\ rx'.raw.kind = "object") =>
          /\ BadCtrl(rx'.raw.f) =>
                /\ rx'.outcome = "returned"
                /\ UNCHANGED << last_ctrl, last_ctrl_latency_ms,
                                last_ctrl_recv_wall >>
          /\ (/\ rx.raw.kind = "object"
              /\ BadCtrl(rx.raw.f)
              /\ GoodCtrl(rx'.raw.f)
              /\ rx'.raw.f.seq = rx.raw.f.seq
              /\ ~IsStale(rx'.raw.f.seq.n))
                => /\ rx'.outcome = "returned"
                   /\ ~IsNone(last_ctrl')
                   /\ Val(last_ctrl').seq = rx'.raw.f.seq.n ]_vars

C21_TimestampUnderT ==
    [][ ( /\ OnMessageFrame
          /\ rx'.raw.kind = "object"
          /\ rx'.raw.f \in TimestampedFrames
          /\ ~IsStale(rx'.raw.f.seq.n) )
          => /\ rx'.outcome = "returned"
             /\ ~IsNone(last_ctrl')
             /\ Val(last_ctrl').seq = rx'.raw.f.seq.n
             /\ Val(last_ctrl').client_timestamp_ms = Some(rx'.raw.f.t.n)
             /\ last_ctrl_latency_ms' = Some(Wall - rx'.raw.f.t.n) ]_vars

\* C22: a snapshot whose seq is above the stored one is never dropped, and
\* one whose seq has wrapped at 2^31, so that it is lower than the stored
\* seq by at least half the range, is accepted as new.
Wrapped(seq) ==
    /\ ~IsNone(last_ctrl)
    /\ seq < Val(last_ctrl).seq
    /\ Val(last_ctrl).seq - seq >= 2 ^ 30
NewOrWrapped(seq) ==
    IsNone(last_ctrl) \/ seq > Val(last_ctrl).seq \/ Wrapped(seq)
C22_WrappedSeqIsAccepted ==
    [][ \A k \in CbThreads :
          /\ ( /\ ConductorStoreCtrl(k)
               /\ NewOrWrapped(cb[k].snap.seq) )
                => /\ last_ctrl' = Some(cb[k].snap)
                   /\ ctrl_drop_count' = ctrl_drop_count
          /\ \A c \in StoreCalls :
               ( /\ variant = "components"
                 /\ CanStart(k)
                 /\ update_if_new(k, c)
                 /\ NewOrWrapped(c.snap.seq) )
                => /\ last_ctrl' = Some(c.snap)
                   /\ ctrl_drop_count' = ctrl_drop_count ]_vars

\* C23: on either transport a frame that decodes as a UTF-8 JSON ctrl
\* payload makes exactly one invocation of the registered callback, and a
\* frame that is not UTF-8 JSON makes none.
IsCtrlPayload(f) ==
    /\ f.kind = "object"
    /\ f.label = ctrl_label
    /\ TpMsgType(f) \in {"cmd", "ctrl"}
C23_OneInvocationPerFrame ==
    [][ \A x \in Transports :
          (TransportMessage(x) /\ tp.callback[x]) =>
             /\ IsCtrlPayload(tp'.frame) => tp'.did.calls = 1
             /\ tp'.frame.kind \in {"not_utf8", "not_json"}
                   => tp'.did.calls = 0 ]_vars

\* C24: an exception raised by the registered callback stays inside the
\* transport's message handler: nothing reaches the transport thread,
\* is_closed() is as before, and a valid frame that comes later is still
\* handed to the callback.
C24_CallbackExceptionsAreCaught ==
    [][ \A x \in Transports :
          (TransportMessage(x) /\ tp.callback[x]) =>
             /\ tp'.did.cb_raised =>
                   /\ ~tp'.did.escaped
                   /\ tp'.closed = tp.closed
             /\ (IsCtrlPayload(tp'.frame) /\ tp'.after_raise[x])
                   => tp'.did.calls >= 1 ]_vars
C24_Witness ==
    /\ \A x \in Transports : tp.after_raise[x] /\ ~tp.closed[x]
    /\ IsCtrlPayload(tp.frame)
    /\ tp.did.calls >= 1
    /\ ~tp.did.cb_raised

\* C25: the Bridge converts and publishes for a payload only when its seq
\* is new with respect to the seq it acted on last; a payload that repeats
\* that seq goes no further than refreshing the watchdog stamp.
C25_DuplicateSeqIsNotPublished ==
    [][ ( /\ ProcessBegin
          /\ ~IsNone(last_seq)
          /\ cb_payload'.seq = last_seq )
          => cb_pc' # "publish" ]_vars

\* C26: estop latches on the Bridge.  Once process_ctrl_payload has handled
\* a payload with estop true, every velocity published to the sink is
\* (0,0), whatever later payloads carry.
C26_BridgeEstopLatches ==
    [][ (estop_handled /\ sink_last' # sink_last)
          => sink_last' = << 0, 0 >> ]_vars

C28_EffectiveControlByAge ==
    [][ LET a == hc'.now
            raw == hc'.ctrl
            out == hc'.out
            decay == clamp(((a - CTRL_HOLD_SEC) * One) \div CTRL_DAMP_SEC,
                           0, One)
        IN  /\ a <= CTRL_HOLD_SEC => out = raw
            /\ a > CTRL_HOLD_SEC =>
                  /\ out[1] * One <= Abs(raw[1]) * (One - decay)
                  /\ out[1] * One >= -(Abs(raw[1]) * (One - decay))
                  /\ Abs(out[1]) * One > Abs(raw[1]) * (One - decay) - One
                  /\ out[1] * raw[1] >= 0
                  /\ Abs(out[2]) * One <= Abs(raw[2]) * (One - decay)
                  /\ Abs(out[2]) * One > Abs(raw[2]) * (One - decay) - One
                  /\ out[2] * raw[2] >= 0
                  /\ out[3] = Max(raw[3], decay)
            /\ a >= CTRL_HOLD_SEC + CTRL_DAMP_SEC =>
                  out = << 0, 0, One >>
            /\ HeldAge =>
                  /\ Abs(hc'.out[1]) <= Abs(hc.out[1])
                  /\ Abs(hc'.out[2]) <= Abs(hc.out[2])
      ]_vars

\* A snapshot with non-zero throttle and steer and no brake, 1.2 s old or
\* older.
C28_Witness ==
    /\ hc.ctrl = << -One, One, 0 >>
    /\ hc.now >= CTRL_HOLD_SEC + CTRL_DAMP_SEC
    /\ hc.out = << 0, 0, One >>

\* C29: while connection_alive is clear or the state label is unready, no
\* state payload is built or handed to send and no state seq is consumed.
C29_NothingBuiltWhileDown ==
    [][ (\/ sb' # sb
         \/ state_seq' # state_seq
         \/ last_payload' # last_payload
         \/ pub'.tried # pub.tried
         \/ (pub.pc = "idle" /\ pub'.pc = "send"))
          => (connection_alive /\ is_ready(state_label)) ]_vars

\* C29 as amended.  A build begins only in a state-loop iteration whose
\* test found connection_alive set and the state label ready; a state seq
\* is consumed only by a build so begun, and only a payload of such a build
\* is handed to send.
C29_BuildOnlyAfterCheck ==
    [][ /\ (sb.pc = "idle" /\ sb'.pc = "compose")
              => (connection_alive /\ is_ready(state_label))
        /\ state_seq' # state_seq => sb.pc = "compose"
        /\ last_payload' # last_payload => sb.pc = "compose"
        /\ (pub'.tried # pub.tried \/ pub'.pc = "send") => Pending
      ]_vars

\* A build under way after an earlier payload was sent, the session being
\* already torn down.
C29_Witness ==
    /\ sb.pc = "compose"
    /\ ~IsNone(pub.sent)
    /\ ~connection_alive

\* C30: a frame is handed to the transport on the state label, state frame
\* or Manager heartbeat alike, only while that label is marked ready.
C30_SendsOnlyWhenReady ==
    [][ (SendDataChannel \/ HeartbeatSendDataChannel)
          => is_ready(state_label) ]_vars

\* C31: connection_alive is set only after the connected event, and the
\* connected event is set only by a connection.created notify that carries
\* a connection_id equal to an id captured from the offer; a notify without
\* an id, or one arriving when no offer id has been captured, sets nothing.
C31_ConnectedOnlyByMatchingNotify ==
    [][ /\ (sig'.connection_alive /\ ~sig.connection_alive)
              => sig.connected_event
        /\ (sig'.connected_event /\ ~sig.connected_event)
              => /\ sig'.msg.type = "notify"
                 /\ sig'.msg.event_type = "connection.created"
                 /\ ~IsNone(sig'.msg.connection_id)
                 /\ ~IsNone(sig.connection_id)
                 /\ sig'.msg.connection_id = sig.connection_id
      ]_vars

\* C32: in every built state payload, status.ok is false exactly when the
\* estop applies (the vehicle's estop_active or the latch, as the build read
\* them) or a UI heartbeat was received and is older than
\* HEARTBEAT_IDLE_SEC; when the estop applies msg is "estop" and estop is
\* true; with no estop and no UI heartbeat ok is true and msg is "ok".
C32_StatusOfBuiltPayload ==
    ~IsNone(last_payload) =>
        LET p == Val(last_payload)
            applies == p.engaged_before \/ p.status.estop
            stale == /\ ~IsNone(p.status.hb_age)
                     /\ Val(p.status.hb_age) > HEARTBEAT_IDLE_SEC
        IN  /\ p.status.ok = ~(applies \/ stale)
            /\ applies => (p.status.msg = "estop" /\ p.status.estop)
            /\ (~applies /\ IsNone(p.status.hb_age))
                  => (p.status.ok /\ p.status.msg = "ok")

\* C33: once a control snapshot exists every emitted payload carries
\* last_ctrl, and a timeline block with a given control seq is attached to
\* one payload only: to the first one built after that seq became the
\* store's latest.
C33_LastCtrlAlwaysTimelineOnce ==
    [][ (last_payload' # last_payload /\ ~IsNone(last_ctrl))
          => LET new == Val(last_payload')
             IN  /\ new.last_ctrl = Some(Val(last_ctrl).seq)
                 /\ IF \/ IsNone(last_payload)
                       \/ Val(last_payload).timeline
                            # Some(Val(last_ctrl).seq)
                    THEN new.timeline \in {None, Some(Val(last_ctrl).seq)}
                    ELSE new.timeline = None
      ]_vars

\* C34: readiness reflects the attached connection only.  attach and detach
\* leave both labels unready, and while no connection is attached to the
\* DataChannelManager no label is ready.
C34_NoConnectionNoReadiness ==
    /\ \A c \in Conns \cup {NoConn}, l \in Labels :
          ~attach(c).ready[l] /\ ~detach.ready[l]
    /\ dc.conn = NoConn => \A l \in Labels : ~is_ready(l)

\* C35: with estop_active false and the effective brake below
\* brake_threshold, to_velocity returns (clamp(throttle,-1,1) *
\* max_linear_speed, clamp(steer,-1,1) * max_angular_speed) of the
\* effective throttle and steer; for every input |linear| <=
\* |max_linear_speed| and |angular| <= |max_angular_speed|; and command
\* "UP" with max_linear_speed 0.3 yields (0.3, 0).
C35_VelocityFormulaAndBound ==
    ~IsNone(conv_result) =>
        LET a == conv_args
            eff == EffectiveTriple(a.command, a.throttle, a.steer, a.brake)
            r == Val(conv_result)
            lim(x) == IF x < -One THEN -One ELSE IF x > One THEN One ELSE x
        IN  /\ (~a.estop_active /\ eff[3] < brake_threshold
                 /\ ~IsNaN(eff[1]) /\ ~IsNaN(eff[2]))
                  => r = << lim(eff[1]) * max_linear_speed,
                            lim(eff[2]) * max_angular_speed >>
            /\ ~IsNaN(r[1]) /\ Abs(r[1]) <= One * Abs(max_linear_speed)
            /\ ~IsNaN(r[2]) /\ Abs(r[2]) <= One * Abs(max_angular_speed)
            /\ (a.command = Some("UP") /\ ~a.estop_active)
                  => r = << One * max_linear_speed, 0 >>

\* C36: one connection at most is current, and when the connection loop
\* creates a connection every connection it created before has been
\* disconnected and none is attached to the DataChannelManager or
\* registered as current.
C36_TornDownBeforeNext ==
    [][ CreateConnection
          => /\ conn = NoConn
             /\ dc.conn = NoConn
             /\ \A c \in Conns : sdk[c] \notin Live \cup {"new"}
      ]_vars

\* The loop has just created a connection while the one before it, already
\* disconnected, still owes its on_disconnect.
C36_Witness ==
    /\ loop.pc = "register"
    /\ \E c \in Conns : c # loop.conn /\ sdk[c] = "closing"
    /\ conn = NoConn
    /\ dc.conn = NoConn

\* C37: on a step at dt = 1/60 s whose effective throttle is 0 and whose
\* effective brake is positive (control 1.2 s old or older, or E-Stop), vx
\* keeps its sign and its magnitude does not grow, and a vx of 0 stays 0.
C37_BrakingNeverReverses ==
    [][ (/\ PhysicsStep
         /\ phys.dt = 1
         /\ LET held == HeldCommand(phys.ctrl, phys.now)
                throttle == IF vehicle._estop_active THEN 0 ELSE held[1]
                brake == IF vehicle._estop_active THEN One ELSE held[3]
            IN  throttle = 0 /\ brake > 0)
        => /\ vehicle'.vx * vehicle.vx >= 0
           /\ Abs(vehicle'.vx) <= Abs(vehicle.vx) ]_vars

\* C38: no thread holds two mutexes at once, and no thread is inside the
\* transport's disconnect() while it holds the connection mutex.
C38_NoNestedLocks ==
    \A t \in LockThreads :
        /\ Cardinality(locks_held(t)) <= 1
        /\ lk.pc[t] = "disconnect" => lk.owner["conn"] # t

\* C39: the control store is never cleared, and a step that changes it
\* stores a seq above the one it held: whatever sessions end and begin in
\* between, a frame is accepted only if its seq exceeds the highest seq
\* accepted so far.
C39_StoreOutlivesSessions ==
    [][ /\ ~IsNone(last_ctrl) => ~IsNone(last_ctrl')
        /\ (last_ctrl' # last_ctrl /\ ~IsNone(last_ctrl))
              => Val(last_ctrl').seq > Val(last_ctrl).seq ]_vars

\* seq 2 was accepted in the first session; in the second session the UI
\* started again at seq 1 and the frame was dropped.
C39_Witness ==
    /\ sess.log = << << 1, 2 >>, << 2, 1 >> >>
    /\ FramesHandled = 2
    /\ cb[1].pc = "idle"
    /\ ~IsNone(last_ctrl)
    /\ Val(last_ctrl).seq = 2
    /\ ctrl_recv_count = 1
    /\ ctrl_drop_count = 1

\* C40: every call of _flush_pending_states returns: a state thread that is
\* inside the flush gets out of it.
C40_FlushReturns ==
    (fl.pc \in InFlush) ~> (fl.pc \notin InFlush)

====
